---------------------------- MODULE Spec2Model ----------------------------
(***************************************************************************)
(* Frame-driven animation: the Animation progress state machine            *)
(* (globals/animation.js, kept in src/unnamed/part_001 lines 360-636), the *)
(* TimeValue progress functions and the curve functions                    *)
(* (src/modules/function.js), the shared animation clock                   *)
(* (requestAnimation / onAnimation) and the presets (src/modules/preset.js)*)
(*                                                                         *)
(* Times are integer ticks.  A progress value, a curve coordinate and an   *)
(* eased value are JavaScript numbers: IEEE-754 doubles, computed with the *)
(* rounding of every operation the code performs.                          *)
(***************************************************************************)
EXTENDS Integers, Sequences, FiniteSets, TLC

(***************************************************************************)
(* Bounds of the model                                                     *)
(***************************************************************************)
\* the tick counter runs over 0..MaxTime
MaxTime == 4
\* start() is given a start time in now..now+MaxDelay
MaxDelay == 1
\* pause() calls per behaviour
MaxPauses == 2
\* the last time of the end-to-end scenario
LastAdvance == 150
\* the last tick of the clock under fairness
LiveTime == 2

\* interval / duration arguments
Intervals == {2, 4}
\* <<fInterval, |fCount|>> of the finite runs: one cycle, two cycles
FiniteRuns == {<<2, 1>>, <<2, 2>>, <<4, 1>>}
\* fInterval of the unbounded runs
LoopIntervals == {4}

(***************************************************************************)
(* JavaScript values.  The times, intervals, directions and counts that    *)
(* the callers pass are integers, Infinity or NaN, and are kept as such:   *)
(* the interval and the times as plain integers, a direction, a count and  *)
(* fTimeEnd tagged.                                                        *)
(***************************************************************************)
null == <<>>
undefined == <<"undefined", 0>>
Some(x) == <<x>>
Num(x) == <<"num", x>>
Infinity == <<"inf", 0>>
NaN == <<"nan", 0>>
isFinite(x) == x[1] = "num"
isNaN(x) == x[1] = "nan"
Sign(x) == IF x > 0 THEN 1 ELSE IF x < 0 THEN -1 ELSE 0
Abs(x) == IF x < 0 THEN -x ELSE x
\* x || y for a number or undefined x: undefined, 0 and NaN give y
Or(x, y) == IF x \in {undefined, Num(0), NaN} THEN y ELSE x

\* F(x), where x is evaluated once, before F
With(x, F(_)) == CHOOSE r \in {F(v) : v \in {x}} : TRUE

\* the base of the digits of a natural number, and the bits of one digit
Limb == 2^14
LimbWidth == CHOOSE k \in 1..30 : 2^k = Limb
Pair == Limb * Limb

(***************************************************************************)
(* Natural numbers of any size: the sequence of the digits to the base     *)
(* Limb, the lowest first, the highest not 0, and <<>> for 0.  They are    *)
(* the exact results that the operations on doubles round.  The            *)
(* operations are functions, which are applied to values.                  *)
(***************************************************************************)
Digits == Seq(Int)

\* the largest and the smallest member of a set of integers
Highest[S \in SUBSET Int] == CHOOSE i \in S : \A j \in S : j <= i
Lowest[S \in SUBSET Int] == CHOOSE i \in S : \A j \in S : i <= j

\* a sequence of n copies of 0
Zeros[n \in Nat] == SubSeq([i \in 1..n |-> 0], 1, n)

\* the digits without the zeros at the high end
NatTrim[a \in Digits] ==
    LET S == {i \in 1..Len(a) : a[i] # 0}
    IN IF S = {} THEN <<>> ELSE SubSeq(a, 1, Highest[S])

\* the digit i of a
NatLimb[a \in Digits, i \in Int] == IF 1 <= i /\ i <= Len(a) THEN a[i] ELSE 0

\* 0 <= n < 2^31 as a natural number
NatFromInt[n \in Nat] == NatTrim[<<n % Limb, (n \div Limb) % Limb, n \div Pair>>]

\* the number of the digit sums d, each below 2 * Limb - 1: the carry into
\* a digit comes from a digit below that overflows, through digits that are
\* all Limb - 1
NatCarry[d \in Digits] ==
    NatTrim[SubSeq([i \in 1..(Len(d) + 1) |->
                       (NatLimb[d, i]
                          + (IF \E j \in 1..(i - 1) :
                                    d[j] >= Limb
                                        /\ \A k \in (j + 1)..(i - 1) : d[k] = Limb - 1
                             THEN 1 ELSE 0)) % Limb],
                   1, Len(d) + 1)]

\* a + b
NatAdd[a \in Digits, b \in Digits] ==
    LET n == IF Len(a) > Len(b) THEN Len(a) ELSE Len(b)
    IN NatCarry[SubSeq([i \in 1..n |-> NatLimb[a, i] + NatLimb[b, i]], 1, n)]

\* the number of the digit differences d, each above -Limb: the borrow from
\* a digit comes from a digit below that falls short, through digits that
\* are all 0
NatBorrow[d \in Digits] ==
    NatTrim[SubSeq([i \in 1..Len(d) |->
                       (d[i] + Limb
                          - (IF \E j \in 1..(i - 1) :
                                    d[j] < 0 /\ \A k \in (j + 1)..(i - 1) : d[k] = 0
                             THEN 1 ELSE 0)) % Limb],
                   1, Len(d))]

\* a - b for a >= b
NatSub[a \in Digits, b \in Digits] ==
    NatBorrow[SubSeq([i \in 1..Len(a) |-> a[i] - NatLimb[b, i]], 1, Len(a))]

\* the sign of a - b
NatCmp[a \in Digits, b \in Digits] ==
    LET S == {i \in 1..Len(a) : a[i] # b[i]}
    IN IF Len(a) # Len(b) THEN (IF Len(a) > Len(b) THEN 1 ELSE -1)
       ELSE IF S = {} THEN 0
       ELSE IF a[Highest[S]] > b[Highest[S]] THEN 1 ELSE -1

\* a * k for 0 <= k <= Limb: the low halves of the digit products, and
\* their high halves one place up
NatMulInt[a \in Digits, k \in Nat] ==
    NatAdd[SubSeq([i \in 1..Len(a) |-> (a[i] * k) % Limb], 1, Len(a)),
           <<0>> \o SubSeq([i \in 1..Len(a) |-> (a[i] * k) \div Limb], 1, Len(a))]

\* a * b, b halved until it is one digit
NatMul[a \in Digits, b \in Digits] ==
    IF a = <<>> \/ b = <<>> THEN <<>>
    ELSE IF Len(b) = 1 THEN NatMulInt[a, b[1]]
    ELSE NatAdd[NatMul[a, SubSeq(b, 1, Len(b) \div 2)],
                Zeros[Len(b) \div 2]
                    \o NatMul[a, SubSeq(b, (Len(b) \div 2) + 1, Len(b))]]

\* a * 2^k
NatShl[a \in Digits, k \in Nat] ==
    LET q == k \div LimbWidth
        r == k % LimbWidth
        n == Len(a) + q + 1
    IN NatTrim[SubSeq([i \in 1..n |->
                          (NatLimb[a, i - q] % 2^(LimbWidth - r)) * 2^r
                              + (NatLimb[a, i - q - 1] \div 2^(LimbWidth - r))],
                      1, n)]

\* a \div 2^k
NatShr[a \in Digits, k \in Nat] ==
    LET q == k \div LimbWidth
        r == k % LimbWidth
        n == IF Len(a) > q THEN Len(a) - q ELSE 0
    IN NatTrim[SubSeq([i \in 1..n |->
                          (NatLimb[a, i + q] \div 2^r)
                              + (NatLimb[a, i + q + 1] % 2^r) * 2^(LimbWidth - r)],
                      1, n)]

\* the number of binary digits of a
NatBits[a \in Digits] ==
    IF a = <<>> THEN 0
    ELSE LimbWidth * (Len(a) - 1)
            + Cardinality({k \in 0..(LimbWidth - 1) : 2^k <= a[Len(a)]})

\* the number of trailing binary zeros of a # 0
NatTz[a \in Digits] ==
    LET i == Lowest[{j \in 1..Len(a) : a[j] # 0}]
    IN LimbWidth * (i - 1) + Cardinality({k \in 1..LimbWidth : a[i] % 2^k = 0})

(***************************************************************************)
(* Doubles.  A finite double other than 0 is <<s, m, e>>, its value        *)
(* s * m * 2^e with the sign s 1 or -1 and m an odd natural number below   *)
(* 2^53, so that equal doubles are equal tuples.  -0 is not told from 0:   *)
(* no operation of the program does ( ===, ||, | 0 and the arithmetic      *)
(* treat them alike).  The exponents of the values computed stay far       *)
(* inside the range of a double, and overflow, underflow and subnormal     *)
(* numbers are left out.  Every arithmetic operation rounds its exact      *)
(* result to the nearest double, ties to even.                             *)
(***************************************************************************)
Double == Int \X Digits \X Int
Zero == <<0, <<>>, 0>>
One == <<1, <<1>>, 0>>
F64NaN == <<0, <<>>, 1>>
\* Infinity (s = 1) and -Infinity (s = -1)
F64Inf[s \in Int] == <<s, <<>>, 0>>
IsInf[x \in Double] == x[2] = <<>> /\ x[1] # 0

\* s * m * 2^e, which needs no rounding
F64Make[s \in Int, m \in Digits, e \in Int] ==
    IF m = <<>> THEN Zero ELSE <<s, NatShr[m, NatTz[m]], e + NatTz[m]>>

\* s * q * 2^e for m = q * 2^k + r, rounded by r at the k digits cut off
F64RoundAt[s \in Int, q \in Digits, r \in Digits, k \in Nat, e \in Int, bSticky \in BOOLEAN] ==
    LET c == NatCmp[r, NatShl[<<1>>, k - 1]]
    IN IF c > 0 \/ (c = 0 /\ (bSticky \/ q[1] % 2 = 1))
       THEN F64Make[s, NatAdd[q, <<1>>], e + k]
       ELSE F64Make[s, q, e + k]

\* the double nearest to s * m * 2^e, or to a value a little above it in
\* magnitude (bSticky)
F64Round[s \in Int, m \in Digits, e \in Int, bSticky \in BOOLEAN] ==
    LET k == NatBits[m] - 53
    IN IF k <= 0 THEN F64Make[s, m, e]
       ELSE F64RoundAt[s, NatShr[m, k], NatSub[m, NatShl[NatShr[m, k], k]], k, e,
                       bSticky]

\* the integer n as a double
F64Int[n \in Int] ==
    IF n = 0 THEN Zero ELSE F64Make[Sign(n), NatFromInt[Abs(n)], 0]

\* -x
F64Neg[x \in Double] == <<-x[1], x[2], x[3]>>
Math_abs[x \in Double] == <<Abs(x[1]), x[2], x[3]>>

\* s * (a - b) * 2^e or, for a < b, -s * (b - a) * 2^e
F64Diff[s \in Int, a \in Digits, b \in Digits, e \in Int] ==
    LET c == NatCmp[a, b]
    IN IF c = 0 THEN Zero
       ELSE IF c > 0 THEN F64Round[s, NatSub[a, b], e, FALSE]
       ELSE F64Round[-s, NatSub[b, a], e, FALSE]

\* x + y
F64Add[x \in Double, y \in Double] ==
    LET e == IF x[3] < y[3] THEN x[3] ELSE y[3]
    IN IF x = F64NaN \/ y = F64NaN THEN F64NaN
       ELSE IF IsInf[x] THEN (IF IsInf[y] /\ y[1] # x[1] THEN F64NaN ELSE x)
       ELSE IF IsInf[y] \/ x = Zero THEN y
       ELSE IF y = Zero THEN x
       ELSE IF x[1] = y[1]
       THEN F64Round[x[1], NatAdd[NatShl[x[2], x[3] - e], NatShl[y[2], y[3] - e]],
                     e, FALSE]
       ELSE F64Diff[x[1], NatShl[x[2], x[3] - e], NatShl[y[2], y[3] - e], e]

\* x - y
F64Sub[x \in Double, y \in Double] == F64Add[x, F64Neg[y]]

\* x * y
F64Mul[x \in Double, y \in Double] ==
    IF x = F64NaN \/ y = F64NaN THEN F64NaN
    ELSE IF IsInf[x] \/ IsInf[y]
    THEN (IF x = Zero \/ y = Zero THEN F64NaN ELSE F64Inf[x[1] * y[1]])
    ELSE IF x = Zero \/ y = Zero THEN Zero
    ELSE F64Round[x[1] * y[1], NatMul[x[2], y[2]], x[3] + y[3], FALSE]

\* the digit q or q - 1 of a quotient r \div d, whichever has q * d <= r
F64DivLower[r \in Digits, d \in Digits, q \in Nat] ==
    IF q = 0 \/ NatCmp[NatMulInt[d, q], r] <= 0 THEN q ELSE q - 1

\* one digit of long division: for r < d * Limb, with d of four digits and
\* its highest digit at least Limb / 2, the digit r \div d, found from an
\* estimate at most 2 above it
F64DivDigit[r \in Digits, d \in Digits] ==
    LET t == (NatLimb[r, 5] * Limb + NatLimb[r, 4]) \div d[4]
    IN F64DivLower[r, d, F64DivLower[r, d, IF t > Limb - 1 THEN Limb - 1 ELSE t]]

\* the remainder r - q * d, times Limb
F64DivRest[r \in Digits, d \in Digits, q \in Nat] ==
    Zeros[1] \o NatSub[r, NatMulInt[d, q]]

\* n digits of r / d after the digits q, and whether a remainder is left
F64DivDigits[r \in Digits, d \in Digits, n \in Nat, q \in Digits] ==
    IF n = 0 THEN <<q, NatTrim[r] # <<>>>>
    ELSE F64DivDigits[F64DivRest[r, d, F64DivDigit[r, d]], d, n - 1,
                      <<F64DivDigit[r, d]>> \o q]

\* m / d * 2^e rounded, m and d shifted to four digits each
F64Quotient[s \in Int, m \in Digits, d \in Digits, e \in Int] ==
    LET q == F64DivDigits[m, d, 5, <<>>]
    IN F64Round[s, NatTrim[q[1]], e, q[2]]

\* x / y: a quotient by 0 is an infinity, or NaN for 0 / 0
F64Div[x \in Double, y \in Double] ==
    LET sx == 4 * LimbWidth - NatBits[x[2]]
        sy == 4 * LimbWidth - NatBits[y[2]]
    IN IF x = F64NaN \/ y = F64NaN THEN F64NaN
       ELSE IF IsInf[x] THEN (IF IsInf[y] THEN F64NaN
                              ELSE F64Inf[x[1] * (IF y[1] < 0 THEN -1 ELSE 1)])
       ELSE IF IsInf[y] THEN Zero
       ELSE IF y = Zero THEN (IF x = Zero THEN F64NaN ELSE F64Inf[x[1]])
       ELSE IF x = Zero THEN Zero
       ELSE IF y[2] = <<1>> THEN <<x[1] * y[1], x[2], x[3] - y[3]>>
       ELSE F64Quotient[x[1] * y[1], NatShl[x[2], sx], NatShl[y[2], sy],
                        (x[3] - sx) - (y[3] - sy) - 4 * LimbWidth]

\* the double nearest to n / d, which is n / d of the code for integers
F64Ratio[n \in Int, d \in Int] == F64Div[F64Int[n], F64Int[d]]

(***************************************************************************)
(* Math.pow.  The language leaves the last digit of a power to the engine. *)
(* The definitions below are the function of V8, the engine of Node.js     *)
(* (base/ieee754.cc, pow, after e_pow.c of fdlibm): the powers 0, 1 and 2  *)
(* are 1, x and x * x, and a higher power is 2^(y * log2(x)), the          *)
(* logarithm kept in two doubles.  It works on the two 32 bit words of a   *)
(* double; the high word holds the sign, the exponent and 20 digits.       *)
(* Every name after pow_ is a variable of that function; a definition      *)
(* takes the variables alive at its place and passes on those alive after  *)
(* it.  An exponent is a natural number below 2^31 here, which leaves out  *)
(* the branches for a huge, a negative and a fractional y, and the result  *)
(* stays in the range of the normal doubles.                               *)
(***************************************************************************)
\* the positive double of the high word hi and the low word lo1 * 2^16 + lo0
F64Words[hi \in Nat, lo1 \in Nat, lo0 \in Nat] ==
    F64Make[1, NatAdd[NatShl[NatFromInt[2^20 + (hi % 2^20)], 32],
                      NatAdd[NatShl[NatFromInt[lo1], 16], NatFromInt[lo0]]],
            (hi \div 2^20) - 1075]

\* GET_HIGH_WORD of x >= 0
F64HighWord[x \in Double] ==
    LET b == NatBits[x[2]]
        t == IF b > 21 THEN NatShr[x[2], b - 21] ELSE NatShl[x[2], 21 - b]
    IN IF x[2] = <<>> THEN 0
       ELSE (x[3] + b + 1021) * 2^20 + NatLimb[t, 1] + Limb * NatLimb[t, 2]

\* the double >= 0 of the high word hw and the low word 0
F64FromHigh[hw \in Nat] ==
    IF hw = 0 THEN Zero
    ELSE F64Make[1, NatFromInt[2^20 + (hw % 2^20)], (hw \div 2^20) - 1043]

\* SET_LOW_WORD(x, 0)
F64High[x \in Double] ==
    IF NatBits[x[2]] <= 21 THEN x
    ELSE F64Make[x[1], NatShr[x[2], NatBits[x[2]] - 21], x[3] + NatBits[x[2]] - 21]

\* s * x for a sign s
F64Sign[s \in Int, x \in Double] == <<s * x[1], x[2], x[3]>>

\* x * 2^n, which SET_HIGH_WORD gives when it changes the exponent only
F64Scale[x \in Double, n \in Int] ==
    IF x[2] = <<>> THEN x ELSE <<x[1], x[2], x[3] + n>>

pow_bp == <<One, F64Words[\h3FF80000, 0, 0]>>
pow_dp_h == <<Zero, F64Words[\h3FE2B803, \h4000, 0]>>
pow_dp_l == <<Zero, F64Words[\h3E4CFDEB, \h43CF, \hD006]>>
pow_L1 == F64Words[\h3FE33333, \h3333, \h3303]
pow_L2 == F64Words[\h3FDB6DB6, \hDB6F, \hABFF]
pow_L3 == F64Words[\h3FD55555, \h518F, \h264D]
pow_L4 == F64Words[\h3FD17460, \hA91D, \h4101]
pow_L5 == F64Words[\h3FCD864A, \h93C9, \hDB65]
pow_L6 == F64Words[\h3FCA7E28, \h4A45, \h4EEF]
pow_P1 == F64Words[\h3FC55555, \h5555, \h553E]
pow_P2 == F64Neg[F64Words[\h3F66C16C, \h16BE, \hBD93]]
pow_P3 == F64Words[\h3F11566A, \hAF25, \hDE2C]
pow_P4 == F64Neg[F64Words[\h3EBBBD41, \hC5D2, \h6BF1]]
pow_P5 == F64Words[\h3E663769, \h72BE, \hA4D0]
pow_lg2 == F64Words[\h3FE62E42, \hFEFA, \h39EF]
pow_lg2_h == F64Words[\h3FE62E43, 0, 0]
pow_lg2_l == F64Neg[F64Words[\h3E205C61, \h0CA8, \h6C39]]
pow_cp == F64Words[\h3FEEC709, \hDC3A, \h03FD]
pow_cp_h == F64Words[\h3FEEC709, \hE000, 0]
pow_cp_l == F64Neg[F64Words[\h3E3E2FE0, \h145B, \h01F5]]

\* r = (z * t1) / ((t1 - two) - (w + z * w)) and z = one - (r - z); n is
\* added to the exponent in the high word of z
pow_exp_r[n \in Int, z \in Double, w \in Double, t1 \in Double] ==
    F64Scale[F64Sub[One, F64Sub[F64Div[F64Mul[z, t1],
                                       F64Sub[F64Sub[t1, F64Int[2]],
                                              F64Add[w, F64Mul[z, w]]]],
                                z]],
             n]

\* t1 = z - t * (P1 + t * (P2 + t * (P3 + t * (P4 + t * P5))))
pow_exp_t1[n \in Int, z \in Double, w \in Double, t \in Double] ==
    pow_exp_r[n, z, w,
              F64Sub[z, F64Mul[t, F64Add[pow_P1, F64Mul[t, F64Add[pow_P2,
                        F64Mul[t, F64Add[pow_P3, F64Mul[t, F64Add[pow_P4,
                        F64Mul[t, pow_P5]]]]]]]]]]]

\* w = v - (z - u) and t = z * z
pow_exp_w[n \in Int, u \in Double, v \in Double, z \in Double] ==
    pow_exp_t1[n, z, F64Sub[v, F64Sub[z, u]], F64Mul[z, z]]

\* z = u + v
pow_exp_v[n \in Int, u \in Double, v \in Double] ==
    pow_exp_w[n, u, v, F64Add[u, v]]

\* u = t * lg2_h and v = (p_l - (t - p_h)) * lg2 + t * lg2_l
pow_exp_u[n \in Int, p_l \in Double, p_h \in Double, t \in Double] ==
    pow_exp_v[n, F64Mul[t, pow_lg2_h],
              F64Add[F64Mul[F64Sub[p_l, F64Sub[t, p_h]], pow_lg2],
                     F64Mul[t, pow_lg2_l]]]

\* t = p_l + p_h with the low word 0
pow_exp_t[n \in Int, p_l \in Double, p_h \in Double] ==
    pow_exp_u[n, p_l, p_h, F64High[F64Add[p_l, p_h]]]

\* k is the exponent of n; t has the high word n & ~(0x000fffff >> k) and
\* the sign of z, n = ((n & 0x000fffff) | 0x00100000) >> (20 - k), and -n
\* for z < 0: n is [z + 0.5]; then p_h -= t (nothing of it for n = 0)
pow_exp_n[p_l \in Double, p_h \in Double, s \in Int, n \in Nat] ==
    pow_exp_t[IF n = 0 THEN 0
              ELSE s * (((n % 2^20) + \h00100000) \div 2^(1043 - (n \div 2^20))),
              p_l,
              IF n = 0 THEN p_h
              ELSE F64Sub[p_h, F64Sign[s, F64FromHigh[n - (n % 2^(1043 - (n \div 2^20)))]]]]

\* for |z| > 0.5, n = j + (0x00100000 >> (k + 1)) with k the exponent of z;
\* otherwise n stays 0
pow_exp_i[p_l \in Double, p_h \in Double, s \in Int, i \in Nat] ==
    pow_exp_n[p_l, p_h, s,
              IF i > \h3FE00000 THEN i + (\h00100000 \div 2^((i \div 2^20) - 1022))
              ELSE 0]

\* the sign of z (j < 0) and the high word i of |z|
pow_exp_j[p_l \in Double, p_h \in Double, z \in Double] ==
    pow_exp_i[p_l, p_h, z[1], F64HighWord[Math_abs[z]]]

\* z = p_l + p_h
pow_exp_z[p_l \in Double, p_h \in Double] ==
    pow_exp_j[p_l, p_h, F64Add[p_l, p_h]]

\* t2 = z_l - (((t1 - t) - dp_h[k]) - z_h); y1 is y with the low word 0,
\* p_l = (y - y1) * t1 + y * t2 and p_h = y1 * t1
pow_log_t2[k \in Nat, n \in Int, y \in Double, z_h \in Double, z_l \in Double, t1 \in Double] ==
    pow_exp_z[F64Add[F64Mul[F64Sub[y, F64High[y]], t1],
                     F64Mul[y, F64Sub[z_l, F64Sub[F64Sub[F64Sub[t1, F64Int[n]],
                                                         pow_dp_h[k + 1]],
                                                  z_h]]]],
              F64Mul[F64High[y], t1]]

\* t = (double) n and t1 = ((z_h + z_l) + dp_h[k]) + t with the low word 0:
\* log2(ax) is t1 + t2
pow_log_t1[k \in Nat, n \in Int, y \in Double, z_h \in Double, z_l \in Double] ==
    pow_log_t2[k, n, y, z_h, z_l,
               F64High[F64Add[F64Add[F64Add[z_h, z_l], pow_dp_h[k + 1]], F64Int[n]]]]

\* p_l = v - (p_h - u), z_h = cp_h * p_h and
\* z_l = cp_l * p_h + p_l * cp + dp_l[k]
pow_log_z_h[k \in Nat, n \in Int, y \in Double, u \in Double, v \in Double, p_h \in Double] ==
    pow_log_t1[k, n, y, F64Mul[pow_cp_h, p_h],
               F64Add[F64Add[F64Mul[pow_cp_l, p_h],
                             F64Mul[F64Sub[v, F64Sub[p_h, u]], pow_cp]],
                      pow_dp_l[k + 1]]]

\* p_h = u + v with the low word 0
pow_log_p_h[k \in Nat, n \in Int, y \in Double, u \in Double, v \in Double] ==
    pow_log_z_h[k, n, y, u, v, F64High[F64Add[u, v]]]

\* t_l = r - ((t_h - 3.0) - s2), u = s_h * t_h and v = s_l * t_h + t_l * ss
pow_log_t_l[k \in Nat, n \in Int, y \in Double, ss \in Double, s_h \in Double, s_l \in Double, r \in Double, s2 \in Double, t_h \in Double] ==
    pow_log_p_h[k, n, y, F64Mul[s_h, t_h],
                F64Add[F64Mul[s_l, t_h],
                       F64Mul[F64Sub[r, F64Sub[F64Sub[t_h, F64Int[3]], s2]], ss]]]

\* t_h = 3.0 + s2 + r with the low word 0
pow_log_t_h[k \in Nat, n \in Int, y \in Double, ss \in Double, s_h \in Double, s_l \in Double, r \in Double, s2 \in Double] ==
    pow_log_t_l[k, n, y, ss, s_h, s_l, r, s2,
                F64High[F64Add[F64Add[F64Int[3], s2], r]]]

\* r = s2 * s2 * (L1 + s2 * (L2 + s2 * (L3 + s2 * (L4 + s2 * (L5 + s2 * L6)))))
\* and r += s_l * (s_h + ss); then s2 = s_h * s_h
pow_log_r[k \in Nat, n \in Int, y \in Double, ss \in Double, s_h \in Double, s_l \in Double, s2 \in Double] ==
    pow_log_t_h[k, n, y, ss, s_h, s_l,
                F64Add[F64Mul[F64Mul[s2, s2],
                              F64Add[pow_L1, F64Mul[s2, F64Add[pow_L2,
                              F64Mul[s2, F64Add[pow_L3, F64Mul[s2, F64Add[pow_L4,
                              F64Mul[s2, F64Add[pow_L5, F64Mul[s2, pow_L6]]]]]]]]]]],
                       F64Mul[s_l, F64Add[s_h, ss]]],
                F64Mul[s_h, s_h]]

\* t_l = ax - (t_h - bp[k]), s_l = v * ((u - s_h * t_h) - s_h * t_l) and
\* s2 = ss * ss
pow_log_s_l[ax \in Double, k \in Nat, n \in Int, y \in Double, u \in Double, v \in Double, ss \in Double, s_h \in Double, t_h \in Double] ==
    pow_log_r[k, n, y, ss, s_h,
              F64Mul[v, F64Sub[F64Sub[u, F64Mul[s_h, t_h]],
                               F64Mul[s_h, F64Sub[ax, F64Sub[t_h, pow_bp[k + 1]]]]]],
              F64Mul[ss, ss]]

\* s_h is ss with the low word 0, and t_h is ax + bp[k] with the high word
\* ((ix >> 1) | 0x20000000) + 0x00080000 + (k << 18) and the low word 0
pow_log_s_h[ax \in Double, ix \in Nat, k \in Nat, n \in Int, y \in Double, u \in Double, v \in Double, ss \in Double] ==
    pow_log_s_l[ax, k, n, y, u, v, ss, F64High[ss],
                F64FromHigh[(ix \div 2) + \h20000000 + \h00080000 + k * 2^18]]

\* ss = u * v
pow_log_ss[ax \in Double, ix \in Nat, k \in Nat, n \in Int, y \in Double, u \in Double, v \in Double] ==
    pow_log_s_h[ax, ix, k, n, y, u, v, F64Mul[u, v]]

\* u = ax - bp[k] and v = one / (ax + bp[k])
pow_log_u[ax \in Double, ix \in Nat, k \in Nat, n \in Int, y \in Double] ==
    pow_log_ss[ax, ix, k, n, y, F64Sub[ax, pow_bp[k + 1]],
               F64Div[One, F64Add[ax, pow_bp[k + 1]]]]

\* x > 0 with the high word hx: n is the exponent of x and ax is x with
\* the exponent 0, or n one more and the exponent -1 from sqrt(3) on;
\* k is 1 from sqrt(3/2) up to sqrt(3), where ax is compared with 1.5
pow_log_ax[x \in Double, y \in Double, hx \in Nat] ==
    pow_log_u[F64Scale[x, (IF hx % 2^20 < \hBB67A THEN 1023 ELSE 1022) - (hx \div 2^20)],
              (hx % 2^20) + (IF hx % 2^20 < \hBB67A THEN \h3FF00000 ELSE \h3FE00000),
              IF hx % 2^20 <= \h3988E \/ hx % 2^20 >= \hBB67A THEN 0 ELSE 1,
              (hx \div 2^20) - (IF hx % 2^20 < \hBB67A THEN 1023 ELSE 1022), y]

\* Math.pow(x, n) for an integer n >= 0
Math_pow[x \in Double, n \in Nat] ==
    IF n = 0 THEN One
    ELSE IF x = F64NaN THEN F64NaN
    ELSE IF n = 1 THEN x
    ELSE IF n = 2 THEN F64Mul[x, x]
    ELSE IF x[2] = <<>> \/ Math_abs[x] = One
    THEN (IF n % 2 = 0 THEN Math_abs[x] ELSE x)
    ELSE F64Sign[IF x[1] < 0 /\ n % 2 = 1 THEN -1 ELSE 1,
                 pow_log_ax[Math_abs[x], F64Int[n], F64HighWord[Math_abs[x]]]]

Math_floor[x \in Double] ==
    IF x[2] = <<>> \/ x[3] >= 0 THEN x
    ELSE IF x[1] > 0 THEN F64Make[1, NatShr[x[2], -x[3]], 0]
    ELSE F64Make[-1, NatAdd[NatShr[x[2], -x[3]], <<1>>], 0]

\* Math.round(x): floor(x + 1/2), computed exactly
Math_round[x \in Double] ==
    LET k == -x[3]
    IN IF x[2] = <<>> \/ x[3] >= 0 THEN x
       ELSE IF x[1] > 0
       THEN F64Make[1, NatShr[NatAdd[x[2], NatShl[<<1>>, k - 1]], k], 0]
       ELSE IF NatCmp[x[2], NatShl[<<1>>, k - 1]] <= 0 THEN Zero
       ELSE F64Make[-1, NatShr[NatSub[NatAdd[x[2], NatShl[<<1>>, k - 1]], <<1>>], k],
                    0]

\* the integer s * t modulo 2^32 as a signed integer
ToInt32Of[s \in Int, t \in Digits] ==
    LET low == NatLimb[t, 1] + Limb * NatLimb[t, 2]
        top == NatLimb[t, 3] % 16
    IN IF s > 0 THEN (IF top < 8 THEN top ELSE top - 16) * Pair + low
       ELSE IF top < 8 \/ (top = 8 /\ low = 0) THEN (-top) * Pair - low
       ELSE (15 - top) * Pair + (Pair - low)

\* x | 0: the integer part of x modulo 2^32 as a signed integer, and 0 for
\* NaN and the infinities
ToInt32[x \in Double] ==
    IF x[2] = <<>> \/ x[3] >= 32 THEN 0
    ELSE IF x[3] < 0 THEN ToInt32Of[x[1], NatShr[x[2], -x[3]]]
    ELSE ToInt32Of[x[1], NatShl[x[2], x[3]]]

\* the sign of x - y for finite x and y
F64Cmp[x \in Double, y \in Double] == F64Sub[x, y][1]

\* 0 <= x <= 1
InUnit[x \in Double] == x = Zero \/ (x[2] # <<>> /\ x[1] = 1 /\ F64Cmp[x, One] <= 0)

\* fPercent without the floor taken off
Fraction_NoFloor(fElapsed, fInterval) == F64Ratio[fElapsed, fInterval]

\* fPercent - Math.floor(fPercent), fPercent = fElapsed / fInterval: with
\* fInterval 0 the quotient is an infinity or NaN, and the difference NaN
Fraction(fElapsed, fInterval) ==
    LET fPercent == F64Ratio[fElapsed, fInterval]
    IN F64Sub[fPercent, Math_floor[fPercent]]

\* 1 - fPercentFraction
Reverse(fPercentFraction) == F64Sub[One, fPercentFraction]

\* a saw-tooth in the place of the triangle
PingPong_Saw(fPercentFraction) == fPercentFraction
\* 1 - Math.abs(fPercentFraction * 2 - 1)
PingPong(fPercentFraction) ==
    F64Sub[One, Math_abs[F64Sub[F64Mul[fPercentFraction, F64Int[2]], One]]]

(***************************************************************************)
(* The clock: module state bRunning, bInvalidAnimation, iLastTime; the     *)
(* evAnimation listeners held by MessagePool; the platform's outstanding   *)
(* frame requests.  A world w is [clock, pool, frames].                    *)
(* iAnimationTime is only ever written and is left out.                    *)
(***************************************************************************)
ClockInit == [bRunning |-> FALSE, bInvalidAnimation |-> FALSE, iLastTime |-> 0]

RECURSIVE Without(_, _)
Without(s, h) ==
    IF s = <<>> THEN <<>>
    ELSE IF Head(s) = h THEN Without(Tail(s), h)
    ELSE <<Head(s)>> \o Without(Tail(s), h)

Has(s, h) == \E i \in 1..Len(s) : s[i] = h

\* requestAnimation() without the test of bInvalidAnimation
requestAnimation_NoFlagGuard(w) ==
    IF w.clock.bRunning
    THEN IF w.pool # <<>>
         THEN [w EXCEPT !.clock.bInvalidAnimation = TRUE, !.frames = @ + 1]
         ELSE [w EXCEPT !.clock.iLastTime = 0]
    ELSE w

requestAnimation(w) ==
    IF w.clock.bRunning /\ ~w.clock.bInvalidAnimation
    THEN IF w.pool # <<>>
         THEN [w EXCEPT !.clock.bInvalidAnimation = TRUE, !.frames = @ + 1]
         ELSE [w EXCEPT !.clock.iLastTime = 0]
    ELSE w

\* registerAnimation() that only registers the listener
registerAnimation_NoRequest(w, fnHandler) ==
    [w EXCEPT !.pool = Append(@, fnHandler)]

registerAnimation(w, fnHandler) ==
    requestAnimation([w EXCEPT !.pool = Append(@, fnHandler)])

unregisterAnimation(w, fnHandler) ==
    [w EXCEPT !.pool = Without(@, fnHandler)]

\* onAnimation() line 386: the interval handed to the listeners
onAnimation_interval(c, iTime) ==
    IF c.iLastTime = 0 THEN 0 ELSE iTime - c.iLastTime

\* onAnimation() that leaves bInvalidAnimation set
onAnimation_finish_KeepFlag(w, iTime) ==
    requestAnimation([w EXCEPT !.clock.iLastTime = iTime])

\* onAnimation() after recv, without the request of the next frame
onAnimation_finish_NoRequest(w, iTime) ==
    [w EXCEPT !.clock.iLastTime = iTime, !.clock.bInvalidAnimation = FALSE]

\* onAnimation() lines 387-390, after the listeners were notified
onAnimation_finish(w, iTime) ==
    requestAnimation([w EXCEPT !.clock.iLastTime = iTime,
                               !.clock.bInvalidAnimation = FALSE])

\* onAnimationResume() that only sets bRunning
onAnimationResume_NoRequest(w) ==
    IF ~w.clock.bRunning THEN [w EXCEPT !.clock.bRunning = TRUE] ELSE w

onAnimationResume(w) ==
    IF ~w.clock.bRunning
    THEN requestAnimation([w EXCEPT !.clock.bRunning = TRUE])
    ELSE w

onAnimationPause(w) ==
    IF w.clock.bRunning THEN [w EXCEPT !.clock.bRunning = FALSE] ELSE w

(***************************************************************************)
(* Curve functions (modules/function.js).  A curve function object is a    *)
(* record of its fields; the objects are never changed after construction. *)
(***************************************************************************)
\* new LinearCurveFunction(fX1, fY1, fX2, fY2)
LinearCurveFunction(fX1, fY1, fX2, fY2) ==
    [fX1 |-> fX1, fY1 |-> fY1, fX2 |-> fX2, fY2 |-> fY2,
     fXd |-> F64Sub[fX2, fX1], fYd |-> F64Sub[fY2, fY1]]

LinearCurveFunction_getY(oCurve, fX) ==
    IF oCurve.fXd = Zero THEN oCurve.fY2
    ELSE F64Add[F64Div[F64Mul[F64Sub[fX, oCurve.fX1], oCurve.fYd], oCurve.fXd],
                oCurve.fY1]

CurveLinear == LinearCurveFunction(Zero, Zero, One, One)

BezierCurveFunctionFractions == 600
BezierCurveFunctionLUTCount == 600

aFuncionPointsEaseIn ==
    <<Zero, Zero, F64Ratio[42, 100], Zero, One, One, One, One>>
aFuncionPointsEaseOut ==
    <<Zero, Zero, Zero, Zero, F64Ratio[58, 100], One, One, One>>
aFuncionPointsEaseInOut ==
    <<Zero, Zero, F64Ratio[42, 100], Zero, F64Ratio[58, 100], One, One, One>>

\* Math.pow on the arguments that line 111 gives it in the constructor of
\* a curve function with the control points 0..iLast, as a table: a power
\* is computed once, for all the sums that use it
BezierPowers(iLast) ==
    LET aBases ==
            UNION {{F64Ratio[iFraction, BezierCurveFunctionFractions],
                    F64Sub[One, F64Ratio[iFraction, BezierCurveFunctionFractions]]} :
                      iFraction \in 0..BezierCurveFunctionFractions}
    IN IF iLast < 0 THEN <<>>
       ELSE [p \in aBases \X (0..iLast) |-> Math_pow[p[1], p[2]]] @@ <<>>

\* constructor lines 109-114: the loop from iIndex down to 0 with bX (iAxis
\* 0) or bY (iAxis 1) as it stands, which stays NaN once it is NaN; aPow is
\* Math.pow, the function or its table
RECURSIVE BezierSum(_, _, _, _, _, _, _)
BezierSum(aPow, aPoints, iAxis, iLast, fFraction, iIndex, bX) ==
    IF iIndex < 0 \/ bX = F64NaN THEN bX
    ELSE LET fFractionCoefficient ==
                 F64Mul[aPow[F64Sub[One, fFraction], iLast - iIndex],
                        aPow[fFraction, iIndex]]
         IN BezierSum(aPow, aPoints, iAxis, iLast, fFraction, iIndex - 1,
                      F64Add[bX, F64Mul[fFractionCoefficient,
                                        aPoints[iIndex * 2 + iAxis + 1]]])

\* constructor lines 106-117: aXtemp[iFraction] or aYtemp[iFraction]
BezierSample(aPow, aPoints, iAxis, iLast, iFraction) ==
    BezierSum(aPow, aPoints, iAxis, iLast,
              F64Ratio[iFraction, BezierCurveFunctionFractions], iLast, Zero)

\* the samples iFirst..iFinal as a sequence
BezierSamples(aPow, aPoints, iAxis, iLast, iFirst, iFinal) ==
    SubSeq([i \in 1..(iFinal - iFirst + 1) |->
               BezierSample(aPow, aPoints, iAxis, iLast, iFirst + i - 1)],
           1, iFinal - iFirst + 1)

\* constructor lines 124-126, 136-138: (fX * 600) | 0 clamped to 0..600
BezierIndex(fX) ==
    LET iIndexX == ToInt32[F64Mul[fX, F64Int[BezierCurveFunctionLUTCount]]] IN
    IF iIndexX < 0 THEN 0
    ELSE IF iIndexX > BezierCurveFunctionLUTCount THEN BezierCurveFunctionLUTCount
    ELSE iIndexX

\* constructor lines 145-146, 150-151: (fX - fX1) * fYd / fXd + fY1 at
\* fX = iIndex / 600
BezierInterpolate(iIndex, fX1, fY1, fX2, fY2) ==
    LET fXd == F64Sub[fX2, fX1]
        fYd == F64Sub[fY2, fY1]
        fX == F64Ratio[iIndex, BezierCurveFunctionLUTCount]
    IN F64Add[F64Div[F64Mul[F64Sub[fX, fX1], fYd], fXd], fY1]

\* constructor lines 135-158: the entries that the body of the loop writes
\* for one iFraction, iIndex1..iIndex2 or iIndex2..iIndex1; aIndex[i + 1]
\* is the index of the sample i, and iIndex2 the iIndex1 of the body before
BezierSegment(aIndex, iFraction) ==
    LET iIndex1 == aIndex[iFraction + 1]
        iIndex2 == aIndex[iFraction + 2]
    IN IF iIndex1 <= iIndex2 THEN iIndex1..iIndex2 ELSE iIndex2..iIndex1

\* constructor lines 120-162: aYlut[iIndex] at the end.  The entries 0 and
\* 600 are set last.  The loop of lines 134-159 takes iFraction from 599
\* down to 0, so of the bodies that write an entry the one of the least
\* iFraction writes it last, with the samples iFraction and iFraction + 1
\* as <<fX1, fY1>> and <<fX2, fY2>>.  An entry that no body writes keeps
\* the fill of lines 128-132 or, below it, that of lines 120-122.
BezierEntry(aXtemp, aYtemp, aIndex, iIndex) ==
    LET aBodies == {iFraction \in 0..(BezierCurveFunctionFractions - 1) :
                       iIndex \in BezierSegment(aIndex, iFraction)}
        iFraction == Lowest[aBodies]
    IN IF iIndex = 0 THEN aYtemp[1]
       ELSE IF iIndex = BezierCurveFunctionLUTCount
       THEN aYtemp[BezierCurveFunctionFractions + 1]
       ELSE IF aBodies # {}
       THEN BezierInterpolate(iIndex, aXtemp[iFraction + 1], aYtemp[iFraction + 1],
                              aXtemp[iFraction + 2], aYtemp[iFraction + 2])
       ELSE IF aIndex[BezierCurveFunctionFractions + 1] <= iIndex
       THEN aYtemp[BezierCurveFunctionFractions + 1]
       ELSE aYtemp[1]

\* the constructor with Math.pow given as aPow: the lookup table,
\* aYlut[i + 1] being the code's aYlut[i]
BezierLookupTable(aPow, aPoints) ==
    LET iCount == Len(aPoints) \div 2
        iLast == iCount - 1
        aXtemp == BezierSamples(aPow, aPoints, 0, iLast, 0,
                                BezierCurveFunctionFractions)
        aYtemp == BezierSamples(aPow, aPoints, 1, iLast, 0,
                                BezierCurveFunctionFractions)
        aIndex == SubSeq([i \in 1..(BezierCurveFunctionFractions + 1) |->
                             BezierIndex(aXtemp[i])],
                         1, BezierCurveFunctionFractions + 1)
    IN CASE Len(aXtemp) = Len(aYtemp) /\ Len(aIndex) = Len(aXtemp) ->
            [aYlut |-> SubSeq([i \in 1..(BezierCurveFunctionLUTCount + 1) |->
                                  BezierEntry(aXtemp, aYtemp, aIndex, i - 1)],
                              1, BezierCurveFunctionLUTCount + 1)]

\* new BezierCurveFunction(aPoints)
BezierCurveFunction(aPoints) ==
    With(BezierPowers((Len(aPoints) \div 2) - 1),
         LAMBDA aPow : BezierLookupTable(aPow, aPoints))

\* getY that takes the table to end at the entry 599
BezierCurveFunction_getY_ShortTable(oCurve, fX) ==
    LET iRound == ToInt32[Math_round[F64Mul[fX, F64Int[BezierCurveFunctionLUTCount]]]]
        iLut == IF iRound < 0 THEN 0
                ELSE IF iRound > BezierCurveFunctionLUTCount - 1
                THEN BezierCurveFunctionLUTCount - 1
                ELSE iRound
    IN oCurve.aYlut[iLut + 1]

\* getY: Math.round(fX * 600) | 0 clamped to 0..600 selects the entry
BezierCurveFunction_getY(oCurve, fX) ==
    LET iRound == ToInt32[Math_round[F64Mul[fX, F64Int[BezierCurveFunctionLUTCount]]]]
        iLut == IF iRound < 0 THEN 0
                ELSE IF iRound > BezierCurveFunctionLUTCount
                THEN BezierCurveFunctionLUTCount
                ELSE iRound
    IN oCurve.aYlut[iLut + 1]

\* oCurveFunction.getY(fX), by the class of the object
CurveFunction_getY(oCurve, fX) ==
    IF "aYlut" \in DOMAIN oCurve
    THEN BezierCurveFunction_getY(oCurve, fX)
    ELSE LinearCurveFunction_getY(oCurve, fX)

\* the point lists of the Bezier curve functions explored: the three of
\* the module, a line, a falling line, a single point and the empty list
CurvePoints ==
    [CurveEaseIn |-> aFuncionPointsEaseIn,
     CurveEaseOut |-> aFuncionPointsEaseOut,
     CurveEaseInOut |-> aFuncionPointsEaseInOut,
     Line |-> <<Zero, Zero, One, One>>,
     Falling |-> <<One, Zero, Zero, One>>,
     Point |-> <<F64Ratio[1, 2], F64Ratio[1, 2]>>,
     Empty |-> <<>>]

\* the curve functions named, each constructed from its point list; the
\* constructors pass the same arguments to Math.pow
CurveFunctions(sNames) ==
    With(BezierPowers(Highest[{(Len(CurvePoints[s]) \div 2) - 1 : s \in sNames}
                                  \cup {-1}]),
         LAMBDA aPow : [s \in sNames |-> BezierLookupTable(aPow, CurvePoints[s])])

(***************************************************************************)
(* Animation (globals/animation.js)                                        *)
(***************************************************************************)
\* the callbacks given as fnTimeFunction: x => x * x and x => 1 - x
fnTimeFunction_call(fn, fX) ==
    IF fn = "square" THEN F64Mul[fX, fX] ELSE F64Sub[One, fX]

\* start() that registers the handler whatever bRunning is
Animation_start_AlwaysRegister(a, fTimeStart, fInterval, fDirection, fCount, oCurveFunction) ==
    [a |-> [a EXCEPT
               !.fTimeStart = fTimeStart,
               !.fTimeEnd = IF isFinite(fCount)
                            THEN Num(fTimeStart + fInterval * Abs(fCount[2]))
                            ELSE Infinity,
               !.fTimePause = null,
               !.fInterval = fInterval,
               !.fDirection = fDirection,
               !.fCount = fCount,
               !.bStarted = FALSE,
               !.bEnded = FALSE,
               !.bRequestEnd = FALSE,
               !.fNextValue = null,
               !.oCurveFunction = IF oCurveFunction = undefined
                                  THEN CurveLinear ELSE oCurveFunction[1],
               !.bRunning = TRUE],
     register |-> TRUE]

\* start(): the new fields, and whether registerAnimation is called.  The
\* curve function is undefined (the argument left out) or Some(object);
\* fLastValue is left as it was
Animation_start(a, fTimeStart, fInterval, fDirection, fCount, oCurveFunction) ==
    [a |-> [a EXCEPT
               !.fTimeStart = fTimeStart,
               !.fTimeEnd = IF isFinite(fCount)
                            THEN Num(fTimeStart + fInterval * Abs(fCount[2]))
                            ELSE Infinity,
               !.fTimePause = null,
               !.fInterval = fInterval,
               !.fDirection = fDirection,
               !.fCount = fCount,
               !.bStarted = FALSE,
               !.bEnded = FALSE,
               !.bRequestEnd = FALSE,
               !.fNextValue = null,
               !.oCurveFunction = IF oCurveFunction = undefined
                                  THEN CurveLinear ELSE oCurveFunction[1],
               !.bRunning = TRUE],
     register |-> ~a.bRunning]

\* new Animation(fTimeStart, fInterval, fDirection, fCount, oCurveFunction,
\* fnTimeFunction): the instance, and whether registerAnimation is called.
\* An argument left out is undefined; fTimeStart and fInterval are given
\* as Num(x), the curve function as Some(object), the time function as
\* null or Some(name).  With a start time the constructor calls start(),
\* an argument that is undefined, 0 or NaN replaced by its default
Animation_constructor(fTimeStart, fInterval, fDirection, fCount, oCurveFunction, fnTimeFunction) ==
    LET a == [fTimeStart |-> 0, fTimeEnd |-> Num(0), fTimePause |-> null,
              fInterval |-> 1, fDirection |-> Num(1), fCount |-> Num(1),
              bRunning |-> FALSE, bStarted |-> FALSE, bEnded |-> FALSE,
              bRequestEnd |-> FALSE, fNextValue |-> null, fLastValue |-> null,
              oCurveFunction |-> CurveLinear,
              fnTimeFunction |-> IF fnTimeFunction = undefined THEN null
                                 ELSE fnTimeFunction]
    IN IF fTimeStart # undefined
       THEN Animation_start(a, fTimeStart[2], Or(fInterval, Num(1000))[2],
                            Or(fDirection, NaN), Or(fCount, Infinity),
                            oCurveFunction)
       ELSE [a |-> a, register |-> FALSE]

\* new Animation()
Animation_new ==
    Animation_constructor(undefined, undefined, undefined, undefined,
                          undefined, undefined).a

\* setTimeFunciton(fnTimeFunction), fnTimeFunction null or Some(name)
Animation_setTimeFunciton(a, fnTimeFunction) ==
    [a EXCEPT !.fnTimeFunction = fnTimeFunction]

\* stop() that ends the animation at once
Animation_stop_Abort(a) == [a EXCEPT !.bRequestEnd = TRUE, !.bEnded = TRUE]

Animation_stop(a) == [a EXCEPT !.bRequestEnd = TRUE]

\* fTime || getTickCounter()
TimeOrTick(fTime, iTick) == IF fTime = 0 THEN iTick ELSE fTime

\* pause() without the test of fTimePause
Animation_pause_Unguarded(a, fTime, iTick) ==
    [a |-> [a EXCEPT !.fTimePause = Some(TimeOrTick(fTime, iTick))],
     onPause |-> TRUE]

\* pause(): the new fields, and whether onPause is invoked
Animation_pause(a, fTime, iTick) ==
    IF a.fTimePause = null
    THEN [a |-> [a EXCEPT !.fTimePause = Some(TimeOrTick(fTime, iTick))],
          onPause |-> TRUE]
    ELSE [a |-> a, onPause |-> FALSE]

\* resume() without the tests against fTimeStart
Animation_resume_NoClamp(a, fTime, iTick) ==
    IF a.fTimePause # null
    THEN [a |-> [a EXCEPT !.fTimePause = null,
                          !.fTimeStart = @ + (TimeOrTick(fTime, iTick) - a.fTimePause[1])],
          onResume |-> TRUE]
    ELSE [a |-> a, onResume |-> FALSE]

\* resume(): the new fields, and whether onResume is invoked
Animation_resume(a, fTime, iTick) ==
    IF a.fTimePause # null
    THEN LET fTimeResume == TimeOrTick(fTime, iTick) IN
         IF isFinite(a.fCount) /\ fTimeResume <= a.fTimeStart
         THEN [a |-> [a EXCEPT !.fTimePause = null], onResume |-> FALSE]
         ELSE LET fTimePause ==
                      IF isFinite(a.fCount) /\ a.fTimePause[1] < a.fTimeStart
                      THEN a.fTimeStart
                      ELSE a.fTimePause[1]
                  fInterval == fTimeResume - fTimePause
              IN [a |-> [a EXCEPT !.fTimePause = null,
                                  !.fTimeStart = @ + fInterval],
                  onResume |-> TRUE]
    ELSE [a |-> a, onResume |-> FALSE]

\* next() that tests bEnded only
next_cached_EndedOnly(a) == a.bEnded

\* next() that tests the pause only
next_cached_PauseOnly(a) == a.fTimePause # null

\* next() line 563: the cached value is returned
next_cached(a) == a.bEnded \/ a.fTimePause # null

\* next() line 567
next_direction(a) ==
    IF isNaN(a.fDirection) THEN 0 ELSE Sign(a.fDirection[2])

\* next() that compares fTime < fTimeStart
next_beforeStart_Strict(a, fTime) == isFinite(a.fCount) /\ fTime < a.fTimeStart

\* next() lines 569-570: the advance is at or before the start time
next_beforeStart(a, fTime) == isFinite(a.fCount) /\ fTime <= a.fTimeStart

\* next() with the two idle values exchanged
next_idleValue_Swapped(fDirection) == IF fDirection >= 0 THEN One ELSE Zero

\* next() line 571
next_idleValue(fDirection) == IF fDirection >= 0 THEN Zero ELSE One

\* next() that mirrors the cycle only for a negative direction
next_cycle_NoPingPong(a, fTime) ==
    LET fPercentFraction == Fraction(fTime - a.fTimeStart, a.fInterval)
    IN IF next_direction(a) >= 0 THEN fPercentFraction
       ELSE Reverse(fPercentFraction)

\* next() lines 579-589: the value of the cycle at fTime
next_cycle(a, fTime) ==
    LET fDirection == next_direction(a)
        fPercentFraction == Fraction(fTime - a.fTimeStart, a.fInterval)
    IN IF fDirection = 0 THEN PingPong(fPercentFraction)
       ELSE IF fDirection > 0 THEN fPercentFraction
       ELSE Reverse(fPercentFraction)

\* next() that ends after the end time only
next_ending_Strict(a, fTime) ==
    a.bRequestEnd \/ (isFinite(a.fCount) /\ fTime > a.fTimeEnd[2])

\* next() that ends at the end time only
next_ending_NoStop(a, fTime) ==
    isFinite(a.fCount) /\ fTime >= a.fTimeEnd[2]

\* next() line 591: the advance ends the run
next_ending(a, fTime) ==
    a.bRequestEnd \/ (isFinite(a.fCount) /\ fTime >= a.fTimeEnd[2])

\* next() that forces the terminal value on a stop request too
next_value_SnapOnStop(a, fTime) ==
    IF next_ending(a, fTime)
    THEN (IF next_direction(a) > 0 THEN One ELSE Zero)
    ELSE next_cycle(a, fTime)

\* next() lines 591-593 and 603: the value returned by a started advance
next_value(a, fTime) ==
    IF next_ending(a, fTime) /\ ~a.bRequestEnd
    THEN (IF next_direction(a) > 0 THEN One ELSE Zero)
    ELSE next_cycle(a, fTime)

NextResult(a, ret, bStart, bStop) ==
    [a |-> a, ret |-> ret, onStart |-> bStart, onStop |-> bStop]

\* next() that observes a stop request before the start time as well
Animation_next_StopFirst(a, fTime) ==
    IF next_cached(a) THEN NextResult(a, a.fNextValue, FALSE, FALSE)
    ELSE IF a.bRequestEnd /\ next_beforeStart(a, fTime)
    THEN NextResult([a EXCEPT !.bEnded = TRUE, !.bRunning = FALSE],
                    a.fNextValue, FALSE, TRUE)
    ELSE IF next_beforeStart(a, fTime)
    THEN LET v == Some(next_idleValue(next_direction(a))) IN
         NextResult([a EXCEPT !.fNextValue = v], v, FALSE, FALSE)
    ELSE LET bEnd == next_ending(a, fTime) IN
         With(Some(next_value(a, fTime)), LAMBDA v :
              NextResult([a EXCEPT !.bStarted = TRUE,
                                   !.bEnded = @ \/ bEnd,
                                   !.bRunning = IF bEnd /\ ~a.bEnded THEN FALSE ELSE @,
                                   !.fNextValue = v],
                         v, ~a.bStarted, bEnd /\ ~a.bEnded))

\* next(): the new fields, the value returned, whether onStart and onStop
\* are invoked (unregisterAnimation is called exactly when onStop is)
Animation_next(a, fTime) ==
    IF next_cached(a) THEN NextResult(a, a.fNextValue, FALSE, FALSE)
    ELSE IF next_beforeStart(a, fTime)
    THEN LET v == Some(next_idleValue(next_direction(a))) IN
         NextResult([a EXCEPT !.fNextValue = v], v, FALSE, FALSE)
    ELSE LET bEnd == next_ending(a, fTime) IN
         With(Some(next_value(a, fTime)), LAMBDA v :
              NextResult([a EXCEPT !.bStarted = TRUE,
                                   !.bEnded = @ \/ bEnd,
                                   !.bRunning = IF bEnd /\ ~a.bEnded THEN FALSE ELSE @,
                                   !.fNextValue = v],
                         v, ~a.bStarted, bEnd /\ ~a.bEnded))

\* fNextValue || 0: null, NaN and 0 give 0
OrZero(fNextValue) ==
    IF fNextValue = null THEN Zero
    ELSE IF fNextValue[1] = F64NaN THEN Zero
    ELSE fNextValue[1]

\* onAnimation(): next(), the time function if there is one, the curve
\* function, then onAnimate(fX, fY) when the eased value is not the one
\* delivered last (NaN differs from every value, itself included)
Animation_onAnimation(a, iAnimationTime) ==
    With(Animation_next(a, iAnimationTime), LAMBDA r :
    With(IF a.fnTimeFunction # null
         THEN Some(fnTimeFunction_call(a.fnTimeFunction[1], OrZero(r.ret)))
         ELSE r.ret, LAMBDA fNextValue :
    With(CurveFunction_getY(r.a.oCurveFunction, OrZero(fNextValue)), LAMBDA fValue :
         LET bAnimate == r.a.fLastValue # Some(fValue) \/ fValue = F64NaN
         IN [a |-> IF bAnimate THEN [r.a EXCEPT !.fLastValue = Some(fValue)] ELSE r.a,
             ret |-> r.ret, onStart |-> r.onStart, onStop |-> r.onStop,
             onAnimate |-> bAnimate, fX |-> OrZero(fNextValue), fY |-> fValue])))

(***************************************************************************)
(* TimeValue and the Time* functions (modules/function.js)                 *)
(***************************************************************************)
TimeValue_constructor(fTimeStart, fDuration) ==
    [fTimeStart |-> fTimeStart, fTimeEnd |-> fTimeStart + fDuration,
     fTimePause |-> null, fDuration |-> fDuration,
     bStarted |-> FALSE, bEnded |-> FALSE, bRequestEnd |-> FALSE,
     fLastValue |-> null]

TimeValue_pause(o, fTime, iTick) ==
    IF o.fTimePause = null
    THEN [o EXCEPT !.fTimePause = Some(TimeOrTick(fTime, iTick))]
    ELSE o

TimeValue_resume(o, fTime, iTick) ==
    IF o.fTimePause # null
    THEN LET fInterval == TimeOrTick(fTime, iTick) - o.fTimePause[1] IN
         [o EXCEPT !.fTimePause = null, !.fTimeStart = @ + fInterval]
    ELSE o

TimeValue_stop(o) == [o EXCEPT !.bRequestEnd = TRUE]

TimeResult(o, ret, bStart, bStop) ==
    [o |-> o, ret |-> ret, fnStart |-> bStart, fnStop |-> bStop]

\* first line of every Time* function: the cached value is returned
Time_cached(o) == o.bEnded \/ o.fTimePause # null

\* the one-shot functions: idle value at or before the start, terminal
\* value at the end or on a stop request, fRun in between
TimeOneShot(o, fTime, fIdle, fTerminal, fRun) ==
    IF Time_cached(o) THEN TimeResult(o, o.fLastValue, FALSE, FALSE)
    ELSE IF fTime <= o.fTimeStart
    THEN TimeResult([o EXCEPT !.fLastValue = Some(fIdle)], Some(fIdle), FALSE, FALSE)
    ELSE IF fTime >= o.fTimeEnd \/ o.bRequestEnd
    THEN TimeResult([o EXCEPT !.bStarted = TRUE, !.bEnded = TRUE,
                              !.fLastValue = Some(fTerminal)],
                    Some(fTerminal), ~o.bStarted, ~o.bEnded)
    ELSE TimeResult([o EXCEPT !.bStarted = TRUE, !.fLastValue = Some(fRun)],
                    Some(fRun), ~o.bStarted, FALSE)

\* the loop functions: idle value at or before the start, else the cycle
\* value fRun, ending on a stop request
TimeLoop(o, fTime, fIdle, fRun) ==
    IF Time_cached(o) THEN TimeResult(o, o.fLastValue, FALSE, FALSE)
    ELSE IF fTime <= o.fTimeStart
    THEN TimeResult([o EXCEPT !.fLastValue = Some(fIdle)], Some(fIdle), FALSE, FALSE)
    ELSE TimeResult([o EXCEPT !.bStarted = TRUE,
                              !.bEnded = @ \/ o.bRequestEnd,
                              !.fLastValue = Some(fRun)],
                    Some(fRun), ~o.bStarted, o.bRequestEnd /\ ~o.bEnded)

TimeForward(o, fTime) ==
    TimeOneShot(o, fTime, Zero, One, F64Ratio[fTime - o.fTimeStart, o.fDuration])

TimeReverse(o, fTime) ==
    TimeOneShot(o, fTime, One, Zero, F64Ratio[o.fTimeEnd - fTime, o.fDuration])

TimeForwardLoop(o, fTime) ==
    TimeLoop(o, fTime, Zero, Fraction(fTime - o.fTimeStart, o.fDuration))

TimeReverseLoop(o, fTime) ==
    TimeLoop(o, fTime, One, Reverse(Fraction(fTime - o.fTimeStart, o.fDuration)))

TimePingPongLoop(o, fTime) ==
    TimeLoop(o, fTime, Zero, PingPong(Fraction(fTime - o.fTimeStart, o.fDuration)))

TimeFunctions ==
    {"TimeForward", "TimeReverse", "TimeForwardLoop", "TimeReverseLoop",
     "TimePingPongLoop"}

TimeApply(fn, o, fTime) ==
    CASE fn = "TimeForward" -> TimeForward(o, fTime)
      [] fn = "TimeReverse" -> TimeReverse(o, fTime)
      [] fn = "TimeForwardLoop" -> TimeForwardLoop(o, fTime)
      [] fn = "TimeReverseLoop" -> TimeReverseLoop(o, fTime)
      [] fn = "TimePingPongLoop" -> TimePingPongLoop(o, fTime)


(***************************************************************************)
(* State                                                                   *)
(***************************************************************************)
VARIABLES
    subject,    \* which object the caller drives: "Animation", "TimeValue", "Clock"
    now,        \* getTickCounter()
    anim,       \* the Animation instance
    tv,         \* the TimeValue instance
    clock,      \* bRunning, bInvalidAnimation, iLastTime of the clock module
    pool,       \* MessagePool's evAnimation listeners, in registration order
    frames,     \* frame callbacks requested from the platform and not yet run
    dispatch,   \* the clock's onAnimation in progress: listeners still to notify
    ret,        \* value returned by the last next() / Time* call
    last,       \* the last call: [op, fTime]
    req,        \* frame requests the last call made to the platform
    fAnimate,   \* eased value last handed to onAnimate in the current run
    nStart,     \* onStart / fnStart invocations in the current run
    nStop,      \* onStop / fnStop invocations in the current run
    nPause,     \* onPause invocations
    nResume,    \* onResume invocations
    hist,       \* pause/resume history of the current run
    probe,      \* what is recorded besides: "none", "history", "pauses", "scenario"
    curves,     \* the Bezier curve function objects constructed, by name
    curve,      \* the last getY call on a curve function: [sCurve, fX, fY]
    preset      \* the AniShowHide instance and the style of its element

vars ==
    <<subject, now, anim, tv, clock, pool, frames, dispatch, ret, last, req,
      fAnimate, nStart, nStop, nPause, nResume, hist, probe, curves, curve,
      preset>>

\* this.evAnimation of the Animation instance, and some other listener
hAnimation == "evAnimation"
hOther == "fnHandler"
\* this.evAnimation of the AniShow and of the AniHide instance
hShow == "aniShow.evAnimation"
hHide == "aniHide.evAnimation"
\* the sDisplayType and uSpeed arguments of the AniShowHide constructor
sDisplayType == "block"
uSpeed == 2

Directions == {Num(1), Num(-1), NaN}
\* <<fInterval, fCount>> arguments of start()
Runs ==
    {<<r[1], Num(r[2])>> : r \in FiniteRuns}
        \cup {<<i, Infinity>> : i \in LoopIntervals}

World == [clock |-> clock, pool |-> pool, frames |-> frames]
\* a call that leaves the clock alone
Call(op, fTime) ==
    /\ last' = [op |-> op, fTime |-> fTime]
    /\ req' = 0
    /\ UNCHANGED <<clock, pool, frames>>
\* a call that leaves the world w and requested no frame or more
CallWorld(op, fTime, w, n) ==
    /\ last' = [op |-> op, fTime |-> fTime]
    /\ req' = n
    /\ clock' = w.clock /\ pool' = w.pool /\ frames' = w.frames
DispatchIdle == [active |-> FALSE, pending |-> <<>>, iTime |-> 0, iInterval |-> 0]
Count(n, b) == IF b THEN n + 1 ELSE n
HistAdvance(fn) ==
    IF probe = "history"
    THEN [hist EXCEPT !.fn = IF @ \in {"", fn} THEN fn ELSE "mixed"]
    ELSE hist
CountPause(b) == IF b /\ probe = "pauses" THEN nPause + 1 ELSE nPause
CountResume(b) == IF b /\ probe = "pauses" THEN nResume + 1 ELSE nResume
PauseAllowed(b) == (b /\ probe = "pauses") => nPause < MaxPauses

\* S: the start time given; T1, T2: the times given to the one pause and the
\* one resume so far; fn: the Time* function that has driven the TimeValue
HistNone == [S |-> 0, T1 |-> 0, T2 |-> 0, phase |-> "none", fn |-> ""]
HistStart(S) == [S |-> S, T1 |-> 0, T2 |-> 0, phase |-> "clean", fn |-> ""]
HistBegin(S) == IF probe = "history" THEN HistStart(S) ELSE hist
HistDirty ==
    IF probe = "history" THEN [hist EXCEPT !.phase = "dirty"] ELSE hist
\* a pause(fTime) that took effect, a resume(fTime) that followed it
HistPause(fTime) ==
    IF hist.phase = "clean" /\ fTime # 0
    THEN [hist EXCEPT !.T1 = fTime, !.phase = "paused"]
    ELSE HistDirty
HistResume(fTime) ==
    IF hist.phase = "paused" /\ fTime # 0
    THEN [hist EXCEPT !.T2 = fTime, !.phase = "resumed"]
    ELSE HistDirty

\* no getY call yet
NoCurve == [sCurve |-> "", fX |-> null, fY |-> null]

\* domTarget.style, which the caller of the constructor has set or not:
\* display and opacity are both '' where the element has no style of its
\* own (the empty opacity written <<>>, as the opacity is a number once an
\* animation has set it)
NoStyle == [display |-> "", opacity |-> <<>>]
Styles ==
    {NoStyle, [display |-> "none", opacity |-> Zero],
     [display |-> sDisplayType, opacity |-> One]}

\* new AniShowHide(domTarget, uSpeed, sDisplayType, bVisible): the
\* instance, with the display and the opacity of domTarget, which the
\* constructor leaves as they are
AniShowHide_constructor(domTarget, bVisible) ==
    [aniShow |-> Animation_new, aniHide |-> Animation_new,
     bVisible |-> bVisible,
     display |-> domTarget.display,
     opacity |-> domTarget.opacity]

\* the clock after module load
ModuleLoad == [clock |-> ClockInit, pool |-> <<>>, frames |-> 0]

\* module load, then the Animation constructed: r is the result of
\* Animation_constructor, whose start() registers the handler
InitWith(r) ==
    LET w == IF r.register THEN registerAnimation(ModuleLoad, hAnimation)
             ELSE ModuleLoad
    IN
    /\ now = 0
    /\ anim = r.a
    /\ clock = w.clock
    /\ pool = w.pool
    /\ frames = w.frames
    /\ dispatch = DispatchIdle
    /\ ret = null
    /\ last = [op |-> "new", fTime |-> 0]
    /\ req = 0
    /\ fAnimate = null
    /\ nStart = 0 /\ nStop = 0 /\ nPause = 0 /\ nResume = 0

\* module load and new Animation()
InitBase == InitWith([a |-> Animation_new, register |-> FALSE])

\* no Bezier curve function is used
InitCommon ==
    /\ InitBase
    /\ curves = CurveFunctions({})
    /\ curve = NoCurve
    /\ preset = AniShowHide_constructor(NoStyle, FALSE)

\* an Animation constructed without arguments, or a TimeValue constructed
\* with a start time and a duration
InitSubject ==
    \/ /\ subject = "Animation"
       /\ tv = TimeValue_constructor(0, 2)
       /\ hist = HistNone
    \/ /\ subject = "TimeValue"
       /\ \E fTimeStart \in 0..MaxDelay, fDuration \in Intervals :
             /\ tv = TimeValue_constructor(fTimeStart, fDuration)
             /\ hist = HistStart(fTimeStart)

Init == InitCommon /\ InitSubject /\ probe = "none"

(***************************************************************************)
(* The tick counter                                                        *)
(***************************************************************************)
Tick ==
    /\ now < MaxTime
    /\ ~dispatch.active
    /\ now' = now + 1
    /\ Call("tick", now + 1)
    /\ UNCHANGED <<curves, curve, preset, subject, anim, tv, dispatch, ret, fAnimate,
                   nStart, nStop, nPause, nResume, hist, probe>>

(***************************************************************************)
(* Calls on the Animation                                                  *)
(***************************************************************************)
AnimStart(fTimeStart, fInterval, fDirection, fCount, oCurveFunction) ==
    LET r == Animation_start(anim, fTimeStart, fInterval, fDirection, fCount,
                             oCurveFunction)
        w == IF r.register THEN registerAnimation(World, hAnimation) ELSE World
    IN
    /\ anim' = r.a
    /\ nStart' = 0 /\ nStop' = 0
    /\ fAnimate' = null
    /\ hist' = HistBegin(fTimeStart)
    /\ CallWorld("start", fTimeStart, w, w.frames - frames)
    /\ UNCHANGED <<curves, curve, preset, subject, now, tv, dispatch, ret, nPause, nResume, probe>>

AnimStop ==
    /\ anim' = Animation_stop(anim)
    /\ hist' = HistDirty
    /\ Call("stop", now)
    /\ UNCHANGED <<curves, curve, preset, subject, now, tv, dispatch, ret, fAnimate,
                   nStart, nStop, nPause, nResume, probe>>

AnimPause(fTime) ==
    LET r == Animation_pause(anim, fTime, now) IN
    /\ PauseAllowed(r.onPause)
    /\ anim' = r.a
    /\ nPause' = CountPause(r.onPause)
    /\ hist' = IF r.onPause THEN HistPause(fTime) ELSE hist
    /\ Call("pause", fTime)
    /\ UNCHANGED <<curves, curve, preset, subject, now, tv, dispatch, ret, fAnimate,
                   nStart, nStop, nResume, probe>>

AnimResume(fTime) ==
    LET r == Animation_resume(anim, fTime, now) IN
    /\ anim' = r.a
    /\ nResume' = CountResume(r.onResume)
    /\ hist' = IF anim.fTimePause # null THEN HistResume(fTime) ELSE hist
    /\ Call("resume", fTime)
    /\ UNCHANGED <<curves, curve, preset, subject, now, tv, dispatch, ret, fAnimate,
                   nStart, nStop, nPause, probe>>

\* a direct call of next(fTime)
AnimNext(fTime) ==
    \E r \in {Animation_next(anim, fTime)} :
    /\ anim' = r.a
    /\ ret' = r.ret
    /\ nStart' = Count(nStart, r.onStart)
    /\ nStop' = Count(nStop, r.onStop)
    /\ CallWorld("next", fTime,
                 IF r.onStop THEN unregisterAnimation(World, hAnimation) ELSE World, 0)
    /\ UNCHANGED <<curves, curve, preset, subject, now, tv, dispatch, fAnimate, nPause, nResume, hist, probe>>

(***************************************************************************)
(* Calls on the TimeValue                                                  *)
(***************************************************************************)
TVPause(fTime) ==
    /\ PauseAllowed(tv.fTimePause = null)
    /\ tv' = TimeValue_pause(tv, fTime, now)
    /\ nPause' = CountPause(tv.fTimePause = null)
    /\ hist' = IF tv.fTimePause = null THEN HistPause(fTime) ELSE hist
    /\ Call("pause", fTime)
    /\ UNCHANGED <<curves, curve, preset, subject, now, anim, dispatch, ret, fAnimate,
                   nStart, nStop, nResume, probe>>

TVResume(fTime) ==
    /\ tv' = TimeValue_resume(tv, fTime, now)
    /\ hist' = IF tv.fTimePause # null THEN HistResume(fTime) ELSE hist
    /\ Call("resume", fTime)
    /\ UNCHANGED <<curves, curve, preset, subject, now, anim, dispatch, ret, fAnimate,
                   nStart, nStop, nPause, nResume, probe>>

TVStop ==
    /\ tv' = TimeValue_stop(tv)
    /\ hist' = HistDirty
    /\ Call("stop", now)
    /\ UNCHANGED <<curves, curve, preset, subject, now, anim, dispatch, ret, fAnimate,
                   nStart, nStop, nPause, nResume, probe>>

TVAdvance(fn, fTime) ==
    \E r \in {TimeApply(fn, tv, fTime)} :
    /\ tv' = r.o
    /\ ret' = r.ret
    /\ nStart' = Count(nStart, r.fnStart)
    /\ nStop' = Count(nStop, r.fnStop)
    /\ hist' = HistAdvance(fn)
    /\ Call(fn, fTime)
    /\ UNCHANGED <<curves, curve, preset, subject, now, anim, dispatch, fAnimate,
                   nPause, nResume, probe>>

(***************************************************************************)
(* The caller's view: an Animation or a TimeValue driven through its       *)
(* methods with times read from the tick counter.  pause and resume are   *)
(* also given 0, which fTime || getTickCounter() treats as an omitted      *)
(* argument.                                                               *)
(***************************************************************************)
AnimCalls ==
    /\ subject = "Animation"
    /\ \/ \E fTimeStart \in now..(now + MaxDelay), run \in Runs,
             fDirection \in Directions :
             AnimStart(fTimeStart, run[1], fDirection, run[2], undefined)
       \/ AnimStop
       \/ \E fTime \in {0, now} : AnimPause(fTime)
       \/ \E fTime \in {0, now} : AnimResume(fTime)
       \/ AnimNext(now)

TVCalls ==
    /\ subject = "TimeValue"
    /\ \/ \E fTime \in {0, now} : TVPause(fTime)
       \/ \E fTime \in {0, now} : TVResume(fTime)
       \/ TVStop
       \/ \E fn \in TimeFunctions : TVAdvance(fn, now)

Next == Tick \/ AnimCalls \/ TVCalls

Spec == Init /\ [][Next]_vars

(***************************************************************************)
(* Properties of next(), checked under Spec.  In an action formula the     *)
(* unprimed variables are the state before the call and last' names the    *)
(* call that was made.                                                     *)
(***************************************************************************)
IsNext == subject = "Animation" /\ last'.op = "next"
Unpaused == anim.fTimePause = null
Direction == IF isNaN(anim.fDirection) THEN 0 ELSE Sign(anim.fDirection[2])

\* C1 as stated: onStart is invoked by the first next(t) of a run with
\* t > fTimeStart made while the animation is not paused, and by no other
\* call: such a call leaves the count of the run at 1, any other call leaves
\* it as it was.
C1_Original ==
    [][IsNext =>
        nStart' = IF Unpaused /\ ~anim.bEnded /\ last'.fTime > anim.fTimeStart
                  THEN 1 ELSE nStart]_vars

\* C1 amended: for an unbounded count the start time does not gate the
\* start: onStart is invoked by the first next(t) of a run made while not
\* paused with t > fTimeStart or with an unbounded count, and by no other
\* call; a run that has ended has invoked it exactly once.
C1_StartOnce ==
    [][/\ IsNext =>
            nStart' = IF /\ Unpaused /\ ~anim.bEnded
                         /\ (last'.fTime > anim.fTimeStart \/ ~isFinite(anim.fCount))
                      THEN 1 ELSE nStart
       /\ (subject = "Animation" /\ anim'.bEnded) => nStart' = 1]_vars

C1_Witness ==
    /\ subject = "Animation" /\ last.op = "next"
    /\ isFinite(anim.fCount) /\ last.fTime > anim.fTimeStart
    /\ ~anim.bEnded /\ anim.bStarted /\ nStart = 1

\* C2 as stated: for any repeat count, next(t) with t <= fTimeStart on an
\* unpaused, not-ended animation returns 0 (forward) or 1 (reverse) and does
\* not invoke onStart; bStarted stays false.
C2_Original ==
    [][(IsNext /\ Unpaused /\ ~anim.bEnded /\ last'.fTime <= anim.fTimeStart) =>
        /\ Direction > 0 => ret' = Some(Zero)
        /\ Direction < 0 => ret' = Some(One)
        /\ nStart' = nStart
        /\ ~anim'.bStarted]_vars

\* C2 amended: the same for every finite repeat count.
C2_BeforeStart ==
    [][(/\ IsNext /\ Unpaused /\ ~anim.bEnded
        /\ isFinite(anim.fCount) /\ last'.fTime <= anim.fTimeStart) =>
        /\ Direction > 0 => ret' = Some(Zero)
        /\ Direction < 0 => ret' = Some(One)
        /\ nStart' = nStart
        /\ ~anim'.bStarted]_vars

C2_Witness ==
    /\ subject = "Animation" /\ last.op = "next"
    /\ isFinite(anim.fCount) /\ last.fTime <= anim.fTimeStart
    /\ Unpaused /\ ~anim.bEnded /\ Direction < 0
    /\ ret = Some(One) /\ nStart = 0

IsAdvance == last'.op = "next" \/ last'.op \in TimeFunctions

\* C3: an ended Animation or TimeValue has invoked its stop callback exactly
\* once in the run; the advance that ends it returns the value it caches,
\* and every later advance returns that value, changes no field and invokes
\* no callback.
C3_Frozen ==
    [][/\ (subject = "Animation" /\ anim'.bEnded) => nStop' = 1
       /\ (subject = "TimeValue" /\ tv'.bEnded) => nStop' = 1
       /\ (IsAdvance /\ ~anim.bEnded /\ anim'.bEnded) => ret' = anim'.fNextValue
       /\ (IsAdvance /\ ~tv.bEnded /\ tv'.bEnded) => ret' = tv'.fLastValue
       /\ (IsAdvance /\ subject = "Animation" /\ anim.bEnded) =>
             /\ ret' = anim.fNextValue
             /\ anim' = anim /\ pool' = pool
             /\ nStart' = nStart /\ nStop' = nStop
       /\ (IsAdvance /\ subject = "TimeValue" /\ tv.bEnded) =>
             /\ ret' = tv.fLastValue
             /\ tv' = tv
             /\ nStart' = nStart /\ nStop' = nStop]_vars

\* an advance of an ended animation returned a value that is not the value
\* of the cycle at its time: the cached one
C3_Witness ==
    /\ subject = "Animation" /\ last.op = "next"
    /\ anim.bEnded /\ nStop = 1
    /\ ret = anim.fNextValue
    /\ ret # Some(next_cycle(anim, last.fTime))
    /\ ret \notin {Some(Zero), Some(One)}

\* C6 as stated: with a stop request pending on an unpaused animation that
\* has not ended, the next next(t) ends it, whatever t is: bEnded is set,
\* onStop is invoked and the handler is unregistered.
C6_Original ==
    [][(IsNext /\ anim.bRequestEnd /\ Unpaused /\ ~anim.bEnded) =>
        /\ anim'.bEnded
        /\ nStop' = nStop + 1
        /\ ~Has(pool', hAnimation)]_vars

\* C6 amended: it does so for every t > fTimeStart, and for every t when the
\* repeat count is unbounded.
C6_StopObserved ==
    [][(/\ IsNext /\ anim.bRequestEnd /\ Unpaused /\ ~anim.bEnded
        /\ (last'.fTime > anim.fTimeStart \/ ~isFinite(anim.fCount))) =>
        /\ anim'.bEnded
        /\ nStop' = nStop + 1
        /\ ~Has(pool', hAnimation)]_vars

\* ended by the stop request, before the end time
C6_Witness ==
    /\ subject = "Animation" /\ last.op = "next"
    /\ anim.bRequestEnd /\ anim.bEnded /\ nStop = 1
    /\ isFinite(anim.fCount) /\ last.fTime < anim.fTimeEnd[2]
    /\ ~Has(pool, hAnimation) /\ ~anim.bRunning

Ending == subject = "Animation" /\ ~anim.bEnded /\ anim'.bEnded

\* C7 as stated: the advance that ends an animation, at the end time or on
\* a stop request, returns exactly 0 or exactly 1.
C7_Original ==
    [][Ending => ret' \in {Some(Zero), Some(One)}]_vars

\* C7 amended: the advance that ends an animation at its end time, with no
\* stop request pending, returns exactly 1 when the direction is forward
\* and exactly 0 otherwise; the advance that ends it on a stop request
\* returns the value of the cycle at its time, which may be mid-cycle.
C7_Terminal ==
    [][Ending =>
        ret' = IF anim.bRequestEnd
               THEN Some(next_cycle(anim, last'.fTime))
               ELSE Some(IF Direction > 0 THEN One ELSE Zero)]_vars

\* ended on a stop request with a mid-cycle value
C7_Witness ==
    /\ subject = "Animation" /\ last.op = "next"
    /\ anim.bEnded /\ anim.bRequestEnd
    /\ ret = Some(next_cycle(anim, last.fTime))
    /\ ret \notin {Some(Zero), Some(One)}

Registrations ==
    Cardinality({i \in 1..Len(pool) : pool[i] = hAnimation})

\* C12: in every state reached by construction, start, stop, pause, resume
\* and next calls, the Animation's handler is registered with the clock
\* exactly when bRunning is true, and never more than once.
C12_Registered ==
    /\ anim.bRunning <=> Has(pool, hAnimation)
    /\ Registrations <= 1

\* an ended run: the handler registered by start() was unregistered by the
\* next() that ended it
C12_Witness ==
    /\ subject = "Animation" /\ last.op = "next"
    /\ anim.bEnded /\ ~anim.bRunning /\ nStop = 1
    /\ Registrations = 0
    /\ anim.fTimeStart > 0 /\ now > anim.fTimeStart

\* C13: every non-null progress value returned by Animation.next and by
\* the five Time* functions lies in [0, 1], over every sequence of start,
\* pause, resume, stop and advance calls at non-decreasing times.
C13_UnitRange == ret # null => InUnit[ret[1]]

\* TimeReverse returned a mid value on a TimeValue whose start was shifted
\* by a resume
C13_Witness ==
    /\ subject = "TimeValue" /\ last.op = "TimeReverse"
    /\ ret \notin {null, Some(Zero), Some(One)}
    /\ tv.fTimeStart + tv.fDuration > tv.fTimeEnd

\* C14: next(t) on a paused Animation returns the cached value, changes no
\* field, invokes neither onStart nor onStop and leaves the handler
\* registered as it was.
C14_PausedNext ==
    [][(IsNext /\ ~Unpaused) =>
        /\ ret' = anim.fNextValue
        /\ anim' = anim
        /\ pool' = pool
        /\ nStart' = nStart /\ nStop' = nStop
        /\ fAnimate' = fAnimate]_vars

\* a paused, running animation advanced at or after its end time: it has
\* not ended and the value is the one cached before the pause
C14_Witness ==
    /\ subject = "Animation" /\ last.op = "next"
    /\ ~Unpaused /\ ~anim.bEnded /\ anim.bRunning
    /\ isFinite(anim.fCount) /\ last.fTime >= anim.fTimeEnd[2]
    /\ ret = anim.fNextValue /\ ret \notin {null, Some(Zero), Some(One)}
    /\ Has(pool, hAnimation)

\* C16: pause(T) on a non-paused Animation or TimeValue stores exactly T
\* as the pause timestamp, for every T given by the caller.
C16_PauseStores ==
    [][/\ (subject = "Animation" /\ last'.op = "pause" /\ anim.fTimePause = null) =>
            anim'.fTimePause = Some(last'.fTime)
       /\ (subject = "TimeValue" /\ last'.op = "pause" /\ tv.fTimePause = null) =>
            tv'.fTimePause = Some(last'.fTime)]_vars

\* C18: stop() on an Animation or TimeValue sets the stop request and
\* changes nothing else (bEnded, bStarted, the cached value, the times, the
\* registration) and invokes no callback; bEnded becomes true only inside a
\* later advance.
C18_StopOnlyFlags ==
    [][/\ (subject = "Animation" /\ last'.op = "stop") =>
            /\ anim' = [anim EXCEPT !.bRequestEnd = TRUE]
            /\ pool' = pool /\ ret' = ret
            /\ nStart' = nStart /\ nStop' = nStop
            /\ nPause' = nPause /\ nResume' = nResume
       /\ (subject = "TimeValue" /\ last'.op = "stop") =>
            /\ tv' = [tv EXCEPT !.bRequestEnd = TRUE]
            /\ ret' = ret
            /\ nStart' = nStart /\ nStop' = nStop
       /\ (~anim.bEnded /\ anim'.bEnded) => last'.op = "next"
       /\ (~tv.bEnded /\ tv'.bEnded) => last'.op \in TimeFunctions]_vars

\* stop() on a started, running animation: nothing has ended yet
C18_Witness ==
    /\ subject = "Animation" /\ last.op = "stop"
    /\ anim.bRequestEnd /\ ~anim.bEnded /\ anim.bStarted /\ anim.bRunning
    /\ Has(pool, hAnimation) /\ nStart = 1 /\ nStop = 0
    /\ ret \notin {null, Some(Zero), Some(One)}

\* C27: bEnded implies bStarted in every reachable state of an Animation
\* and of a TimeValue, and onStop (fnStop) has been invoked in a run only
\* if onStart (fnStart) has been invoked in it, also when stop() was
\* requested before the start time.
C27_EndedStarted ==
    /\ subject = "Animation" =>
          /\ anim.bEnded => anim.bStarted
          /\ nStop > 0 => nStart > 0
    /\ subject = "TimeValue" =>
          /\ tv.bEnded => tv.bStarted
          /\ nStop > 0 => nStart > 0

\* a stop requested before the start time was observed by the first advance
\* past the start time, which started and ended the run
C27_Witness ==
    /\ subject = "Animation" /\ last.op = "next"
    /\ isFinite(anim.fCount) /\ anim.fTimeStart = 1
    /\ last.fTime = 2 /\ Num(last.fTime) # anim.fTimeEnd
    /\ anim.bRequestEnd /\ anim.bEnded /\ anim.bStarted
    /\ nStart = 1 /\ nStop = 1

(***************************************************************************)
(* The pause/resume round trip: a finite run is started once, paused once  *)
(* at T1 and resumed once at T2, and advanced at any tick; the times of    *)
(* the calls are recorded in hist.                                         *)
(***************************************************************************)
InitRoundTrip == InitCommon /\ InitSubject /\ probe = "history"

RoundTripAnim ==
    /\ subject = "Animation"
    /\ \/ /\ hist.phase = "none"
          /\ \E fTimeStart \in now..(now + MaxDelay), run \in FiniteRuns,
                fDirection \in Directions :
                AnimStart(fTimeStart, run[1], fDirection, Num(run[2]), undefined)
       \/ hist.phase = "clean" /\ now > 0 /\ AnimPause(now)
       \/ hist.phase = "paused" /\ AnimResume(now)
       \/ hist.phase # "none" /\ AnimNext(now)

RoundTripTV ==
    /\ subject = "TimeValue"
    /\ \/ hist.phase = "clean" /\ now > 0 /\ TVPause(now)
       \/ hist.phase = "paused" /\ TVResume(now)
       \/ \E fn \in {"TimeForward", "TimeReverse"} :
             hist.fn \in {"", fn} /\ TVAdvance(fn, now)

NextRoundTrip == Tick \/ RoundTripAnim \/ RoundTripTV

SpecRoundTrip == InitRoundTrip /\ [][NextRoundTrip]_vars

\* the value a never-paused Animation with the same arguments returns at fTime
UnpausedAnimation(fTime) ==
    Animation_next(
        Animation_start(Animation_new, hist.S, anim.fInterval,
                        anim.fDirection, anim.fCount, undefined).a,
        fTime)

\* the result of fn on a never-paused TimeValue with the same arguments
UnpausedTimeValue(fn, fTime) ==
    TimeApply(fn, TimeValue_constructor(hist.S, tv.fDuration), fTime)

\* C17: a finite run started at S, paused at T1 and resumed at T2 >= T1.
\* If T2 <= S the resume clears the pause and leaves fTimeStart and fTimeEnd
\* as start() set them; otherwise fTimeStart is shifted by T2 - max(T1, S),
\* which is not negative.
C17_ResumeClamp ==
    (subject = "Animation" /\ hist.phase = "resumed" /\ last.op = "resume") =>
        /\ anim.fTimePause = null
        /\ IF hist.T2 <= hist.S
           THEN /\ anim.fTimeStart = hist.S
                /\ anim.fTimeEnd = Num(hist.S + anim.fInterval * Abs(anim.fCount[2]))
           ELSE /\ anim.fTimeStart =
                     hist.S + (hist.T2 - (IF hist.T1 < hist.S THEN hist.S ELSE hist.T1))
                /\ anim.fTimeStart >= hist.S

\* paused before the start time and resumed after it: the shift is counted
\* from the start time
C17_Witness ==
    /\ subject = "Animation" /\ hist.phase = "resumed" /\ last.op = "resume"
    /\ hist.T1 < hist.S /\ hist.S < hist.T2
    /\ anim.fTimeStart = hist.T2

\* C4: finite run started at S, pause(T1), resume(T2), S <= T1 <= T2: the
\* value next(T3) returns, T3 >= T2, is the value a never-paused animation
\* returns at S + (T3 - T2) + (T1 - S), and it has ended exactly when that
\* one has (the pause is excised from the moment of the end as well).
C4_RoundTrip ==
    (/\ subject = "Animation"
     /\ hist.phase = "resumed"
     /\ hist.S <= hist.T1
     /\ last.op = "next")
    => LET u == UnpausedAnimation(hist.S + (last.fTime - hist.T2)
                                        + (hist.T1 - hist.S))
       IN ret = u.ret /\ anim.bEnded = u.a.bEnded

\* C5: TimeValue with start S, pause(T1), resume(T2), S < T1 <= T2:
\* TimeForward and TimeReverse at T3 >= T2 return what they return on an
\* unpaused TimeValue at T3 - (T2 - T1), and the TimeValue has ended exactly
\* when that one has.
C5_RoundTrip ==
    (/\ subject = "TimeValue"
     /\ hist.phase = "resumed"
     /\ hist.S < hist.T1
     /\ last.op \in {"TimeForward", "TimeReverse"}
     /\ hist.fn = last.op)
    => LET u == UnpausedTimeValue(last.op, last.fTime - (hist.T2 - hist.T1))
       IN ret = u.ret /\ tv.bEnded = u.o.bEnded

(***************************************************************************)
(* Pauses and resumes with the onPause / onResume invocations counted; a   *)
(* behaviour holds at most MaxPauses pauses that take effect.              *)
(***************************************************************************)
InitPauses == InitCommon /\ InitSubject /\ probe = "pauses"

PausesAnim ==
    /\ subject = "Animation"
    /\ \/ \E fTimeStart \in now..(now + MaxDelay), run \in Runs :
             AnimStart(fTimeStart, run[1], Num(1), run[2], undefined)
       \/ \E fTime \in {0, now} : AnimPause(fTime)
       \/ \E fTime \in {0, now} : AnimResume(fTime)
       \/ AnimNext(now)

PausesTV ==
    /\ subject = "TimeValue"
    /\ \/ \E fTime \in {0, now} : TVPause(fTime)
       \/ \E fTime \in {0, now} : TVResume(fTime)
       \/ TVAdvance("TimeForward", now)

NextPauses == Tick \/ PausesAnim \/ PausesTV

SpecPauses == InitPauses /\ [][NextPauses]_vars

\* C15: pause() on a paused Animation or TimeValue and resume() on one that
\* is not paused change no field (pause timestamp, start time, flags) and
\* invoke neither onPause nor onResume.
C15_NoOps ==
    [][/\ (subject = "Animation" /\ last'.op = "pause" /\ anim.fTimePause # null) =>
            (anim' = anim /\ nPause' = nPause /\ nResume' = nResume)
       /\ (subject = "Animation" /\ last'.op = "resume" /\ anim.fTimePause = null) =>
            (anim' = anim /\ nPause' = nPause /\ nResume' = nResume)
       /\ (subject = "TimeValue" /\ last'.op = "pause" /\ tv.fTimePause # null) =>
            tv' = tv
       /\ (subject = "TimeValue" /\ last'.op = "resume" /\ tv.fTimePause = null) =>
            tv' = tv]_vars

\* a second pause, at a later tick, left the timestamp of the first and
\* invoked no onPause
C15_Witness ==
    /\ subject = "Animation" /\ last.op = "pause"
    /\ anim.fTimePause # null /\ anim.fTimePause[1] < now
    /\ nPause = 1 /\ nResume = 0

\* C28: onPause and onResume of an Animation are paired: every resume()
\* that clears a pause invokes onResume exactly once.
C28_Paired ==
    [][(/\ subject = "Animation" /\ last'.op = "resume"
        /\ anim.fTimePause # null /\ anim'.fTimePause = null) =>
            nResume' = nResume + 1]_vars

(***************************************************************************)
(* The value of the cycle: runs of every kind of direction (positive,      *)
(* negative, 0 and NaN) and of intervals that give thirds and quarters,    *)
(* advanced at every tick, and a TimeValue of such a duration advanced by  *)
(* the loop functions.                                                     *)
(***************************************************************************)
CycleDirections == {Num(2), Num(1), Num(0), Num(-1), Num(-2), NaN}
CycleIntervals == {3, 4}
CycleCounts == {Num(1), Infinity}
CycleFunctions == {"TimeForwardLoop", "TimeReverseLoop", "TimePingPongLoop"}

InitCycle ==
    /\ InitCommon
    /\ \/ /\ subject = "Animation"
          /\ tv = TimeValue_constructor(0, 2)
       \/ /\ subject = "TimeValue"
          /\ \E fTimeStart \in 0..MaxDelay, fDuration \in CycleIntervals :
                tv = TimeValue_constructor(fTimeStart, fDuration)
    /\ hist = HistNone
    /\ probe = "none"

CycleAnim ==
    /\ subject = "Animation"
    /\ \/ \E fTimeStart \in now..(now + MaxDelay), fInterval \in CycleIntervals,
             fDirection \in CycleDirections, fCount \in CycleCounts :
             AnimStart(fTimeStart, fInterval, fDirection, fCount, undefined)
       \/ AnimNext(now)

CycleTV ==
    /\ subject = "TimeValue"
    /\ \E fn \in CycleFunctions : TVAdvance(fn, now)

NextCycle == Tick \/ CycleAnim \/ CycleTV

SpecCycle == InitCycle /\ [][NextCycle]_vars

\* |x - n / d| <= 2^-50, n / d taken as the double nearest to it
Near(x, n, d) ==
    F64Cmp[Math_abs[F64Sub[x, F64Ratio[n, d]]], <<1, <<1>>, -50>>] <= 0

\* C19: an advance at t of an unpaused animation that is past its start
\* gate and does not end returns f = fPercent - floor(fPercent), fPercent
\* the quotient (t - fTimeStart) / fInterval, when the direction is
\* positive, 1 - f when it is negative and 1 - |2f - 1| when it is NaN or
\* 0, each operation rounded as a double.  With k = (t - fTimeStart) mod
\* fInterval the value returned is the fraction k / fInterval, its mirror
\* or its triangle up to the rounding.  (next() changes neither the pause
\* nor the start time, the interval, the direction and the count, so the
\* state after the call tells the case.)
C19_Cycle ==
    (/\ subject = "Animation" /\ last.op = "next"
     /\ Unpaused /\ ~anim.bEnded
     /\ ~(isFinite(anim.fCount) /\ last.fTime <= anim.fTimeStart)) =>
        LET e == last.fTime - anim.fTimeStart
            k == e - anim.fInterval * (e \div anim.fInterval)
            fPercent == F64Div[F64Int[e], F64Int[anim.fInterval]]
            f == F64Sub[fPercent, Math_floor[fPercent]]
        IN /\ ret # null
           /\ Direction > 0 =>
                /\ ret = Some(f)
                /\ Near(ret[1], k, anim.fInterval)
           /\ Direction < 0 =>
                /\ ret = Some(F64Sub[One, f])
                /\ Near(ret[1], anim.fInterval - k, anim.fInterval)
           /\ Direction = 0 =>
                /\ ret = Some(F64Sub[One, Math_abs[F64Sub[F64Mul[f, F64Int[2]], One]]])
                /\ Near(ret[1], anim.fInterval - Abs(2 * k - anim.fInterval),
                        anim.fInterval)

\* direction 0, one third into the cycle: 1 - |2/3 - 1|, the double
\* nearest to 2/3
C19_Witness ==
    /\ subject = "Animation"
    /\ last.op = "next" /\ anim.fDirection = Num(0)
    /\ anim.fInterval = 3 /\ last.fTime - anim.fTimeStart = 1
    /\ ~anim.bEnded /\ anim.bStarted
    /\ ret = Some(F64Ratio[2, 3])

\* the advance at start + e of a ping-pong Animation with unbounded count,
\* 0 < e < interval
PingPongAnim ==
    /\ subject = "Animation" /\ last.op = "next"
    /\ isNaN(anim.fDirection) /\ ~isFinite(anim.fCount)
    /\ anim.fTimePause = null /\ ~anim.bEnded
    /\ 0 < last.fTime - anim.fTimeStart
    /\ last.fTime - anim.fTimeStart < anim.fInterval
\* the value it returns at start + (interval - e)
PingPongAnimMirror ==
    Animation_next(anim, anim.fTimeStart + anim.fInterval
                            - (last.fTime - anim.fTimeStart)).ret
\* the same for TimePingPongLoop
PingPongTV ==
    /\ subject = "TimeValue" /\ last.op = "TimePingPongLoop"
    /\ tv.fTimePause = null /\ ~tv.bEnded
    /\ 0 < last.fTime - tv.fTimeStart
    /\ last.fTime - tv.fTimeStart < tv.fDuration
PingPongTVMirror ==
    TimePingPongLoop(tv, tv.fTimeStart + tv.fDuration
                            - (last.fTime - tv.fTimeStart)).ret

\* C21 as stated: a ping-pong Animation with unbounded count, and
\* TimePingPongLoop, advanced at start + e with 0 < e < interval, return
\* the value they return at start + (interval - e): the values at q and
\* 1 - q of the interval are equal.
C21_Original ==
    /\ PingPongAnim => ret = PingPongAnimMirror
    /\ PingPongTV => ret = PingPongTVMirror

\* x and y are the same double or differ by no more than 2^-53
Close(x, y) ==
    F64Cmp[Math_abs[F64Sub[x[1], y[1]]], <<1, <<1>>, -53>>] <= 0

\* C21 amended: the values at 1/4 and at 3/4 of the interval are equal, and
\* the values at q and 1 - q of the interval differ by no more than 2^-53
\* for every q (they are equal up to the rounding of the division).
C21_PingPong ==
    /\ PingPongAnim =>
          /\ Close(ret, PingPongAnimMirror)
          /\ 4 * (last.fTime - anim.fTimeStart) \in {anim.fInterval, 3 * anim.fInterval}
                => ret = PingPongAnimMirror
    /\ PingPongTV =>
          /\ Close(ret, PingPongTVMirror)
          /\ 4 * (last.fTime - tv.fTimeStart) \in {tv.fDuration, 3 * tv.fDuration}
                => ret = PingPongTVMirror

\* two thirds into a cycle of 3 ticks: not the double returned at one third
C21_Witness ==
    /\ PingPongAnim
    /\ anim.fInterval = 3 /\ last.fTime - anim.fTimeStart = 2
    /\ ret # PingPongAnimMirror
    /\ Close(ret, PingPongAnimMirror)

(***************************************************************************)
(* End to end: new Animation(), start(0, 100, 1, 1) with the linear curve, *)
(* then next(t) at non-decreasing times t up to LastAdvance.  hist records *)
(* the time of the advance that invoked onStop.                            *)
(***************************************************************************)
InitEndToEnd ==
    /\ InitCommon
    /\ subject = "Animation"
    /\ tv = TimeValue_constructor(0, 2)
    /\ hist = HistNone
    /\ probe = "scenario"

ScenarioStart ==
    /\ last.op = "new"
    /\ AnimStart(0, 100, Num(1), Num(1), undefined)

ScenarioNext(fTime) ==
    \E r \in {Animation_next(anim, fTime)} :
    /\ last.op \in {"start", "next"}
    /\ anim' = r.a
    /\ ret' = r.ret
    /\ nStart' = Count(nStart, r.onStart)
    /\ nStop' = Count(nStop, r.onStop)
    /\ hist' = IF r.onStop
               THEN [hist EXCEPT !.T1 = fTime, !.phase = "ended"]
               ELSE hist
    /\ CallWorld("next", fTime,
                 IF r.onStop THEN unregisterAnimation(World, hAnimation) ELSE World, 0)
    /\ UNCHANGED <<curves, curve, preset, subject, now, tv, dispatch, fAnimate, nPause, nResume, probe>>

NextEndToEnd ==
    \/ ScenarioStart
    \/ \E fTime \in last.fTime..LastAdvance : ScenarioNext(fTime)

SpecEndToEnd == InitEndToEnd /\ [][NextEndToEnd]_vars

\* C20: start=0, interval=100, direction=+1, count=1, linear curve: next
\* returns 0 at t=0, 1/2 at t=50 and 1 at every t >= 100, where the linear
\* curve maps each of them to itself; the animation has not ended before
\* an advance with t >= 100, is ended by the first such advance, and onStop
\* has been invoked exactly once whatever advances follow.
C20_EndToEnd ==
    last.op = "next" =>
        /\ last.fTime = 0 => ret = Some(Zero)
        /\ last.fTime = 50 => ret = Some(F64Ratio[1, 2])
        /\ last.fTime < 100 => (~anim.bEnded /\ nStop = 0 /\ hist.phase = "none")
        /\ last.fTime >= 100 =>
             /\ ret = Some(One)
             /\ anim.bEnded /\ nStop = 1
             /\ hist.phase = "ended" /\ hist.T1 >= 100
        /\ anim.oCurveFunction = CurveLinear
        /\ ret # null /\ Some(CurveFunction_getY(anim.oCurveFunction, ret[1])) = ret

\* ended by the advance at t=100 and advanced again at t=150
C20_Witness ==
    /\ last.op = "next" /\ last.fTime = 150
    /\ hist.phase = "ended" /\ hist.T1 = 100
    /\ anim.bEnded /\ nStop = 1 /\ nStart = 1
    /\ ret = Some(One)

(***************************************************************************)
(* The clock driven by the platform: visibility events, frame callbacks    *)
(* and listeners.  onAnimation() calls out to the listeners, which may     *)
(* call back into the clock and the Animation, so one run of it is the     *)
(* steps FrameBegin, Notify / Skip per listener, FrameEnd.  MessagePool    *)
(* (js-message) is not part of the repository: recv is taken to walk the   *)
(* listeners registered when the dispatch began, in registration order,    *)
(* and a listener unregistered meanwhile may or may not still be notified. *)
(***************************************************************************)
evShow ==
    /\ ~dispatch.active
    /\ LET w == onAnimationResume(World) IN
       CallWorld("evShow", now, w, w.frames - frames)
    /\ UNCHANGED <<curves, curve, preset, subject, now, anim, tv, dispatch, ret, fAnimate,
                   nStart, nStop, nPause, nResume, hist, probe>>

evHide ==
    /\ ~dispatch.active
    /\ CallWorld("evHide", now, onAnimationPause(World), 0)
    /\ UNCHANGED <<curves, curve, preset, subject, now, anim, tv, dispatch, ret, fAnimate,
                   nStart, nStop, nPause, nResume, hist, probe>>

\* registerAnimation(fnHandler) by some other listener
RegisterOther ==
    /\ ~Has(pool, hOther)
    /\ LET w == registerAnimation(World, hOther) IN
       CallWorld("register", now, w, w.frames - frames)
    /\ UNCHANGED <<curves, curve, preset, subject, now, anim, tv, dispatch, ret, fAnimate,
                   nStart, nStop, nPause, nResume, hist, probe>>

UnregisterOther ==
    /\ Has(pool, hOther)
    /\ CallWorld("unregister", now, unregisterAnimation(World, hOther), 0)
    /\ UNCHANGED <<curves, curve, preset, subject, now, anim, tv, dispatch, ret, fAnimate,
                   nStart, nStop, nPause, nResume, hist, probe>>

\* the platform runs a requested frame callback: onAnimation() up to recv
FrameBegin ==
    /\ frames > 0
    /\ ~dispatch.active
    /\ dispatch' = [active |-> TRUE, pending |-> pool, iTime |-> now,
                    iInterval |-> onAnimation_interval(clock, now)]
    /\ CallWorld("frameBegin", now, [World EXCEPT !.frames = @ - 1], 0)
    /\ UNCHANGED <<curves, curve, preset, subject, now, anim, tv, ret, fAnimate,
                   nStart, nStop, nPause, nResume, hist, probe>>

\* recv notifies the Animation's handler
NotifyAnimation ==
    /\ dispatch.active
    /\ dispatch.pending # <<>>
    /\ Head(dispatch.pending) = hAnimation
    /\ \E r \in {Animation_onAnimation(anim, dispatch.iTime)} :
       /\ anim' = r.a
       /\ ret' = r.ret
       /\ nStart' = Count(nStart, r.onStart)
       /\ nStop' = Count(nStop, r.onStop)
       /\ fAnimate' = IF r.onAnimate THEN Some(r.fY) ELSE fAnimate
       /\ CallWorld("onAnimation", dispatch.iTime,
                    IF r.onStop THEN unregisterAnimation(World, hAnimation)
                    ELSE World, 0)
    /\ dispatch' = [dispatch EXCEPT !.pending = Tail(@)]
    /\ UNCHANGED <<curves, curve, preset, subject, now, tv, nPause, nResume, hist, probe>>

\* recv notifies the other listener
NotifyOther ==
    /\ dispatch.active
    /\ dispatch.pending # <<>>
    /\ Head(dispatch.pending) = hOther
    /\ dispatch' = [dispatch EXCEPT !.pending = Tail(@)]
    /\ Call("notify", dispatch.iTime)
    /\ UNCHANGED <<curves, curve, preset, subject, now, anim, tv, ret, fAnimate,
                   nStart, nStop, nPause, nResume, hist, probe>>

\* recv passes over a listener that was unregistered during the dispatch
Skip ==
    /\ dispatch.active
    /\ dispatch.pending # <<>>
    /\ ~Has(pool, Head(dispatch.pending))
    /\ dispatch' = [dispatch EXCEPT !.pending = Tail(@)]
    /\ Call("skip", dispatch.iTime)
    /\ UNCHANGED <<curves, curve, preset, subject, now, anim, tv, ret, fAnimate,
                   nStart, nStop, nPause, nResume, hist, probe>>

\* onAnimation() after recv
FrameEnd ==
    /\ dispatch.active
    /\ dispatch.pending = <<>>
    /\ dispatch' = DispatchIdle
    /\ LET w == onAnimation_finish(World, dispatch.iTime) IN
       CallWorld("frameEnd", dispatch.iTime, w, w.frames - frames)
    /\ UNCHANGED <<curves, curve, preset, subject, now, anim, tv, ret, fAnimate,
                   nStart, nStop, nPause, nResume, hist, probe>>

\* the Animation's owner: a.start(now, 2, 1, 1), one forward cycle with the
\* linear curve from the current tick, and a.stop()
ClockAnimCalls ==
    \/ AnimStart(now, 2, Num(1), Num(1), undefined)
    \/ AnimStop

InitClock ==
    /\ InitCommon
    /\ subject = "Clock"
    /\ tv = TimeValue_constructor(0, 2)
    /\ hist = HistNone
    /\ probe = "none"

NextClock ==
    \/ Tick
    \/ evShow
    \/ evHide
    \/ RegisterOther
    \/ UnregisterOther
    \/ FrameBegin
    \/ NotifyAnimation
    \/ NotifyOther
    \/ Skip
    \/ FrameEnd
    \/ ClockAnimCalls

SpecClock == InitClock /\ [][NextClock]_vars

(***************************************************************************)
(* Properties of the clock, checked under SpecClock.                       *)
(***************************************************************************)
\* C8: the clock never has more than one frame request outstanding, over
\* every interleaving of registrations, unregistrations, evShow, evHide and
\* frame callbacks, registrations made inside a frame dispatch included.
C8_OneRequest == frames <= 1

\* a second listener was registered while a request was outstanding, and no
\* further request was made
C8_Witness ==
    /\ last.op \in {"register", "start"}
    /\ Len(pool) = 2 /\ frames = 1 /\ req = 0
    /\ clock.bRunning

Registers == pool = <<>> /\ pool' # <<>>

\* C9 as stated: a registerAnimation call made when no listener is
\* registered makes exactly one frame request.
C9_Original ==
    [][Registers => (req' = 1 /\ frames' = frames + 1)]_vars

\* C9 amended: a registerAnimation call made when no listener is registered
\* makes exactly one frame request if the document is visible and no frame
\* is requested or being dispatched (bRunning and not bInvalidAnimation),
\* and makes none otherwise.
C9_FirstListener ==
    [][Registers =>
        /\ req' = IF clock.bRunning /\ ~clock.bInvalidAnimation THEN 1 ELSE 0
        /\ frames' = frames + req'
        /\ (clock.bRunning /\ frames = 0 /\ ~dispatch.active) => req' = 1]_vars

C9_Witness ==
    /\ last.op \in {"register", "start"}
    /\ Len(pool) = 1 /\ req = 1 /\ frames = 1
    /\ clock.bRunning /\ clock.bInvalidAnimation

\* C10: the end of a frame dispatch requests exactly one further frame if a
\* listener is still registered and the document is visible; otherwise it
\* leaves no frame outstanding and bInvalidAnimation cleared.  With no
\* frame outstanding and no dispatch in progress the flag is clear, so a
\* registration made while visible requests a frame.
C10_FrameEnd ==
    [][/\ last'.op = "frameEnd" =>
            IF pool' # <<>> /\ clock'.bRunning
            THEN req' = 1 /\ frames' = 1 /\ clock'.bInvalidAnimation
            ELSE req' = 0 /\ frames' = 0 /\ ~clock'.bInvalidAnimation
       /\ (frames = 0 /\ ~dispatch.active) => ~clock.bInvalidAnimation
       /\ (/\ frames = 0 /\ ~dispatch.active /\ clock.bRunning
           /\ Len(pool') > Len(pool)) => (req' = 1 /\ frames' = 1)]_vars

\* a dispatch ended with a listener registered and the document visible
C10_Witness ==
    /\ last.op = "frameEnd"
    /\ pool # <<>> /\ clock.bRunning
    /\ req = 1 /\ frames = 1 /\ clock.bInvalidAnimation

ClockSteps == {"evShow", "evHide", "frameBegin", "frameEnd", "notify", "skip", "tick"}

\* C11: while the document is hidden the clock makes no frame request, and
\* the clock itself (visibility events, frame callbacks) never removes a
\* listener; after evShow with a listener registered exactly one frame is
\* outstanding, requested by evShow unless it was already in flight; and
\* the dispatch of a frame notifies every listener registered at its begin.
C11_HideShow ==
    [][/\ (~clock.bRunning /\ last'.op # "evShow") =>
            (req' = 0 /\ frames' <= frames)
       /\ last'.op \in ClockSteps => pool' = pool
       /\ last'.op = "evHide" =>
            (~clock'.bRunning /\ frames' = frames
             /\ clock'.bInvalidAnimation = clock.bInvalidAnimation)
       /\ (last'.op = "evShow" /\ pool # <<>>) =>
            /\ clock'.bRunning /\ frames' = 1
            /\ req' = IF frames = 1 \/ clock.bRunning THEN 0 ELSE 1
       /\ last'.op = "frameBegin" => dispatch'.pending = pool]_vars

\* evShow found two listeners and no frame in flight after an earlier frame
C11_Witness ==
    /\ last.op = "evShow"
    /\ Len(pool) = 2 /\ req = 1 /\ frames = 1
    /\ clock.bRunning /\ clock.iLastTime > 0

\* C29: the first frame dispatched after the loop was idle gets the
\* interval 0: a frame request made while no frame is outstanding and none
\* is being dispatched finds iLastTime reset to 0, and the dispatch of that
\* frame passes the interval 0.
C29_IdleInterval ==
    [][/\ (frames = 0 /\ ~dispatch.active /\ frames' = 1) =>
            clock'.iLastTime = 0
       /\ (last'.op = "frameBegin" /\ clock.iLastTime = 0) =>
            dispatch'.iInterval = 0]_vars

(***************************************************************************)
(* The clock with the document visible, frames delivered and time          *)
(* advancing: evHide does not occur, a requested frame callback is         *)
(* eventually run by the platform and runs to its end (weak fairness), and *)
(* the tick counter advances between frame callbacks however closely they  *)
(* follow each other (strong fairness: a tick cannot occur inside a        *)
(* dispatch).  A run is started only where its end time lies within        *)
(* the ticks explored, and a pause is resumed only where the shifted start *)
(* time does.                                                              *)
(***************************************************************************)
LiveTick ==
    /\ now < LiveTime
    /\ Tick

LiveAnimCalls ==
    \/ /\ now + 2 <= LiveTime
       /\ AnimStart(now, 2, Num(1), Num(1), undefined)
    \/ AnimStop
    \/ AnimPause(now)
    \/ /\ Animation_resume(anim, now, now).a.fTimeStart < LiveTime
       /\ AnimResume(now)

FrameSteps == FrameBegin \/ NotifyAnimation \/ NotifyOther \/ Skip \/ FrameEnd

NextLive ==
    \/ LiveTick
    \/ evShow
    \/ RegisterOther
    \/ UnregisterOther
    \/ FrameBegin
    \/ NotifyAnimation
    \/ NotifyOther
    \/ Skip
    \/ FrameEnd
    \/ LiveAnimCalls

SpecLive ==
    /\ InitClock
    /\ [][NextLive]_vars
    /\ SF_vars(LiveTick)
    /\ WF_vars(FrameSteps)

\* C30: with the document visible, requested frames eventually delivered
\* and time advancing, a started Animation with a finite count that is not
\* paused eventually is Ended and unregistered (or is paused again); and
\* once no listener is registered, the clock eventually has no frame
\* outstanding and none in dispatch (unless a listener registers again), and
\* no call that leaves the pool empty requests a frame.
C30_Live ==
    /\ (/\ clock.bRunning /\ anim.bRunning /\ isFinite(anim.fCount)
        /\ anim.fTimePause = null)
          ~> (\/ anim.bEnded /\ ~Has(pool, hAnimation)
              \/ anim.fTimePause # null)
    /\ (pool = <<>>)
          ~> (\/ frames = 0 /\ ~dispatch.active /\ ~clock.bInvalidAnimation
              \/ pool # <<>>)
    /\ [][pool' = <<>> => req' = 0]_vars

\* the run ended in a frame dispatch, the handler was unregistered, and the
\* end of the dispatch requested no further frame
C30_Witness ==
    /\ last.op = "frameEnd"
    /\ clock.bRunning /\ anim.bEnded /\ ~anim.bRequestEnd /\ nStop = 1
    /\ pool = <<>> /\ frames = 0 /\ req = 0 /\ ~clock.bInvalidAnimation

(***************************************************************************)
(* The Animation with a time function and a curve function, driven by the  *)
(* frames of the clock: the instance may be constructed with a time        *)
(* function, setTimeFunciton replaces or removes it, and start() is given  *)
(* CurveEaseInOut or no curve function.                                    *)
(***************************************************************************)
TimeFunctionNames == {"square", "invert"}

AnimSetTimeFunction(fnTimeFunction) ==
    /\ ~dispatch.active
    /\ anim' = Animation_setTimeFunciton(anim, fnTimeFunction)
    /\ Call("setTimeFunciton", now)
    /\ UNCHANGED <<curves, curve, preset, subject, now, tv, dispatch, ret, fAnimate,
                   nStart, nStop, nPause, nResume, hist, probe>>

EaseAnimCalls ==
    \/ /\ ~dispatch.active
       /\ \E fDirection \in {Num(1), Num(-1)},
             oCurveFunction \in {undefined, Some(curves.CurveEaseInOut)} :
             AnimStart(now, 2, fDirection, Num(1), oCurveFunction)
    \/ \E fn \in TimeFunctionNames : AnimSetTimeFunction(Some(fn))
    \/ AnimSetTimeFunction(null)

\* module load with CurveEaseInOut constructed, and new Animation() or
\* new Animation(undefined, ..., fnTimeFunction)
InitEase ==
    /\ curves = CurveFunctions({"CurveEaseInOut"})
    /\ \E fnTimeFunction \in {undefined} \cup {Some(fn) : fn \in TimeFunctionNames} :
          InitWith(Animation_constructor(undefined, undefined, undefined,
                                         undefined, undefined, fnTimeFunction))
    /\ curve = NoCurve
    /\ preset = AniShowHide_constructor(NoStyle, FALSE)
    /\ subject = "Clock"
    /\ tv = TimeValue_constructor(0, 2)
    /\ hist = HistNone
    /\ probe = "none"

NextEase ==
    \/ Tick
    \/ evShow
    \/ FrameBegin
    \/ NotifyAnimation
    \/ FrameEnd
    \/ EaseAnimCalls

SpecEase == InitEase /\ [][NextEase]_vars

\* the eased value of the progress cached by next(): the time function if
\* there is one, then the curve function
EasedValue ==
    LET fX == IF anim.fnTimeFunction # null
              THEN fnTimeFunction_call(anim.fnTimeFunction[1], OrZero(anim.fNextValue))
              ELSE OrZero(anim.fNextValue)
    IN CurveFunction_getY(anim.oCurveFunction, fX)

\* C26: a run of the Animation that ends by reaching its end time has
\* delivered its terminal eased value to onAnimate: after the frame in
\* which it enters Ended, the last value handed to onAnimate during that
\* run is the curve's value at the terminal progress; this holds for a run
\* begun by start() after an earlier run ended as well.
C26_TerminalDelivered ==
    (/\ subject = "Clock" /\ last.op = "onAnimation"
     /\ anim.bEnded /\ ~anim.bRequestEnd /\ nStop = 1) =>
        fAnimate = Some(EasedValue)

(***************************************************************************)
(* Configuration: start() and the TimeValue constructor given any          *)
(* interval, positive or not, and the instance advanced at the ticks.      *)
(***************************************************************************)
ConfigIntervals == {-2, 0, 2}
ConfigCounts == {Num(1), Infinity}

\* the arguments given to the Animation constructor
ConfigStarts == {undefined, Num(0)}
ConfigArgIntervals == {undefined, Num(0), Num(-2), Num(2)}
ConfigArgDirections == {undefined, Num(0), Num(-1)}
ConfigArgCounts == {undefined, Num(0), Num(1)}

\* new Animation(fTimeStart, fInterval, fDirection, fCount), or a TimeValue
\* constructed with a start time and a duration
InitConfig ==
    /\ \/ /\ subject = "Animation"
          /\ \E fTimeStart \in ConfigStarts, fInterval \in ConfigArgIntervals,
                fDirection \in ConfigArgDirections, fCount \in ConfigArgCounts :
                InitWith(Animation_constructor(fTimeStart, fInterval, fDirection,
                                               fCount, undefined, undefined))
          /\ tv = TimeValue_constructor(0, 2)
       \/ /\ subject = "TimeValue"
          /\ InitBase
          /\ \E fTimeStart \in 0..MaxDelay, fDuration \in ConfigIntervals :
                tv = TimeValue_constructor(fTimeStart, fDuration)
    /\ curves = CurveFunctions({})
    /\ curve = NoCurve
    /\ preset = AniShowHide_constructor(NoStyle, FALSE)
    /\ hist = HistNone
    /\ probe = "none"

ConfigAnim ==
    /\ subject = "Animation"
    /\ \/ \E fTimeStart \in now..(now + MaxDelay), fInterval \in ConfigIntervals,
             fDirection \in Directions, fCount \in ConfigCounts :
             AnimStart(fTimeStart, fInterval, fDirection, fCount, undefined)
       \/ AnimNext(now)

ConfigTV ==
    /\ subject = "TimeValue"
    /\ \E fn \in TimeFunctions : TVAdvance(fn, now)

NextConfig == Tick \/ ConfigAnim \/ ConfigTV

SpecConfig == InitConfig /\ [][NextConfig]_vars

\* C22: a non-positive interval or duration is rejected when the Animation
\* is started or the TimeValue is constructed, so that no instance ever
\* advances with a non-positive interval.
C22_Rejected ==
    /\ (subject = "Animation" /\ last.op = "next") => anim.fInterval > 0
    /\ (subject = "TimeValue" /\ last.op \in TimeFunctions) => tv.fDuration > 0

(***************************************************************************)
(* The curve functions: getY of a Bezier curve function built from one of  *)
(* the point lists below, at fX = k / CurveSteps, from a little below 0 to *)
(* a little above 1.                                                       *)
(***************************************************************************)
CurveSteps == 20

\* the first control point is (0, 0) and the last is (1, 1)
Anchored(aPoints) ==
    /\ Len(aPoints) >= 4
    /\ aPoints[1] = Zero /\ aPoints[2] = Zero
    /\ aPoints[2 * (Len(aPoints) \div 2) - 1] = One
    /\ aPoints[2 * (Len(aPoints) \div 2)] = One

CurveGetY(sCurve, fX) ==
    /\ curve' = [sCurve |-> sCurve, fX |-> Some(fX),
                 fY |-> Some(BezierCurveFunction_getY(curves[sCurve], fX))]
    /\ Call("getY", now)
    /\ UNCHANGED <<curves, preset, subject, now, anim, tv, dispatch, ret, fAnimate,
                   nStart, nStop, nPause, nResume, hist, probe>>

\* module load, and every curve function of CurvePoints constructed
InitCurve ==
    /\ InitBase
    /\ curves = CurveFunctions(DOMAIN CurvePoints)
    /\ curve = NoCurve
    /\ preset = AniShowHide_constructor(NoStyle, FALSE)
    /\ subject = "CurveFunction"
    /\ tv = TimeValue_constructor(0, 2)
    /\ hist = HistNone
    /\ probe = "none"

NextCurve ==
    \E sCurve \in DOMAIN CurvePoints, k \in (-2)..(CurveSteps + 2) :
        CurveGetY(sCurve, F64Ratio[k, CurveSteps])

SpecCurve == InitCurve /\ [][NextCurve]_vars

\* C23: a Bezier curve function whose first control point is (0, 0) and
\* whose last is (1, 1) has getY(0) = 0 and getY(1) = 1 exactly.
C23_Endpoints ==
    (curve.sCurve # "" /\ Anchored(CurvePoints[curve.sCurve])) =>
        /\ curve.fX = Some(Zero) => curve.fY = Some(Zero)
        /\ curve.fX = Some(One) => curve.fY = Some(One)

\* getY(1) of the ease-in-out curve
C23_Witness ==
    /\ curve.sCurve = "CurveEaseInOut"
    /\ curve.fX = Some(One) /\ curve.fY = Some(One)

\* C24: CurveEaseInOut.getY(0.5) is within 1/600 of 0.5.
C24_Midpoint ==
    (curve.sCurve = "CurveEaseInOut" /\ curve.fX = Some(F64Ratio[1, 2])) =>
        /\ curve.fY[1] # F64NaN /\ ~IsInf[curve.fY[1]]
        /\ F64Cmp[Math_abs[F64Sub[curve.fY[1], F64Ratio[1, 2]]],
                  F64Ratio[1, BezierCurveFunctionLUTCount]] <= 0

(***************************************************************************)
(* AniShowHide (modules/preset.js): show() and hide() called between the   *)
(* frames, and the frames dispatched to aniShow and aniHide in the order   *)
(* of their registration.  p is the instance with the style of its         *)
(* element, w the clock with its listeners.                                *)
(***************************************************************************)
\* AniShow.start() / AniHide.start() of the instance p[sAni]
AniStart(p, w, sAni, fnHandler, iTick) ==
    LET r == Animation_start(p[sAni], iTick, uSpeed, Num(1), Num(1),
                             Some(curves.CurveEaseInOut))
    IN
    [p |-> [p EXCEPT ![sAni] = r.a],
     w |-> IF r.register THEN registerAnimation(w, fnHandler) ELSE w]

AniShowHide_show(p, w, iTick) ==
    IF ~p.bVisible
    THEN AniStart([p EXCEPT !.bVisible = TRUE,
                            !.aniHide = Animation_stop(@)],
                  w, "aniShow", hShow, iTick)
    ELSE [p |-> p, w |-> w]

AniShowHide_hide(p, w, iTick) ==
    IF p.bVisible
    THEN AniStart([p EXCEPT !.bVisible = FALSE,
                            !.aniShow = Animation_stop(@)],
                  w, "aniHide", hHide, iTick)
    ELSE [p |-> p, w |-> w]

\* aniShow.evAnimation: onStart sets display, onAnimate sets opacity
AniShow_onAnimation(p, w, iAnimationTime) ==
    With(Animation_onAnimation(p.aniShow, iAnimationTime), LAMBDA r :
         [p |-> [p EXCEPT !.aniShow = r.a,
                          !.display = IF r.onStart THEN sDisplayType ELSE @,
                          !.opacity = IF r.onAnimate THEN r.fY ELSE @],
          w |-> IF r.onStop THEN unregisterAnimation(w, hShow) ELSE w])

\* aniHide.evAnimation: onStop sets display, onAnimate sets opacity
AniHide_onAnimation(p, w, iAnimationTime) ==
    With(Animation_onAnimation(p.aniHide, iAnimationTime), LAMBDA r :
         [p |-> [p EXCEPT !.aniHide = r.a,
                          !.display = IF r.onStop THEN "none" ELSE @,
                          !.opacity = IF r.onAnimate THEN F64Sub[One, r.fY] ELSE @],
          w |-> IF r.onStop THEN unregisterAnimation(w, hHide) ELSE w])

ShowHideCall(op, r) ==
    /\ preset' = r.p
    /\ CallWorld(op, now, r.w, r.w.frames - frames)
    /\ UNCHANGED <<curves, curve, subject, now, anim, tv, dispatch, ret, fAnimate,
                   nStart, nStop, nPause, nResume, hist, probe>>

Show ==
    /\ ~dispatch.active
    /\ ShowHideCall("show", AniShowHide_show(preset, World, now))

Hide ==
    /\ ~dispatch.active
    /\ ShowHideCall("hide", AniShowHide_hide(preset, World, now))

\* recv notifies the handler of aniShow or of aniHide
NotifyShowHide(fnHandler, r) ==
    /\ dispatch.active
    /\ dispatch.pending # <<>>
    /\ Head(dispatch.pending) = fnHandler
    /\ preset' = r.p
    /\ dispatch' = [dispatch EXCEPT !.pending = Tail(@)]
    /\ CallWorld(fnHandler, dispatch.iTime, r.w, 0)
    /\ UNCHANGED <<curves, curve, subject, now, anim, tv, ret, fAnimate,
                   nStart, nStop, nPause, nResume, hist, probe>>

NotifyShow ==
    NotifyShowHide(hShow, AniShow_onAnimation(preset, World, dispatch.iTime))

NotifyHide ==
    NotifyShowHide(hHide, AniHide_onAnimation(preset, World, dispatch.iTime))

\* module load with CurveEaseInOut constructed, and new AniShowHide for an
\* element with any of the styles
InitShowHide ==
    /\ curves = CurveFunctions({"CurveEaseInOut"})
    /\ InitBase
    /\ curve = NoCurve
    /\ \E domTarget \in Styles, bVisible \in BOOLEAN :
          preset = AniShowHide_constructor(domTarget, bVisible)
    /\ subject = "AniShowHide"
    /\ tv = TimeValue_constructor(0, 2)
    /\ hist = HistNone
    /\ probe = "none"

NextShowHide ==
    \/ Tick
    \/ evShow
    \/ evHide
    \/ Show
    \/ Hide
    \/ FrameBegin
    \/ NotifyShow
    \/ NotifyHide
    \/ FrameEnd

SpecShowHide == InitShowHide /\ [][NextShowHide]_vars

\* C25: AniShowHide is consistent: after any sequence of show() and hide()
\* calls interleaved with frame dispatches, once aniShow and aniHide have
\* both ended, the display of the element is 'none' exactly if bVisible is
\* false.
C25_Consistent ==
    (/\ subject = "AniShowHide"
     /\ preset.aniShow.bEnded /\ preset.aniHide.bEnded) =>
        (preset.display = "none" <=> ~preset.bVisible)

=============================================================================
